---- MODULE Spec2Model ----
(***************************************************************************)
(* A model of inventory_omumba.py: the persisted workbook (the Inventory,  *)
(* Issued and History sheets of Nkhokwe.xlsx), the data frames the         *)
(* application keeps in memory, and the handlers that add, merge, edit,    *)
(* delete, issue and return items.                                         *)
(*                                                                         *)
(* A data frame is a sequence of rows; a row is a function from the        *)
(* sheet's column names to cell values.  The source numbers rows from 0,   *)
(* the model from 1, and uses 0 for Python's None as a row index.          *)
(* Time stamps (History "Timestamp", Issued "Issue Date") are not          *)
(* modelled: no handler reads them.                                        *)
(***************************************************************************)
EXTENDS Integers, Sequences, FiniteSets, TLC

(***************************************************************************)
(* Bounds of the model.                                                    *)
(***************************************************************************)
MaxRows == 2        \* rows of the Inventory sheet
MaxHist == 4        \* events of the History sheet (one per mutating handler)
MaxQty == 8         \* largest Quantity a merge may reach
MaxAddOps == 2      \* History events in the add-form specification SpecAdd
MaxEditOps == 3     \* History events in the edit specification SpecEdit
MaxStaff == 3       \* rows of the Staff sheet
MaxStaffRows == 4   \* rows of the Staff sheet in the specification SpecStaff
MaxClock == 2       \* seconds of the clock of the store
MaxCorrupt == 1     \* files damaged from outside
MaxUsers == 3       \* rows of the Users sheet
MaxUserOps == 3     \* History events in the accounts specification SpecUsers
MaxImportOps == 2   \* History events in the import specification SpecImport
MaxRawRows == 2     \* rows of an Inventory sheet written outside the program

(***************************************************************************)
(* Sheets and columns.                                                     *)
(***************************************************************************)
INVENTORY_SHEET == "Inventory"
ISSUED_SHEET == "Issued"
HISTORY_SHEET == "History"
STAFF_SHEET == "Staff"
USERS_SHEET == "Users"
SETTINGS_SHEET == "Settings"

INVENTORY_COLUMNS ==
    {"Product Name", "Category", "Serial Number", "Barcode", "Available",
     "Location", "Quantity", "Unit Price", "Low Stock Threshold"}

ISSUED_COLUMNS ==
    {"Product Name", "Category", "Serial Number", "Barcode",
     "Issued To", "Department", "Position"}

HISTORY_COLUMNS == {"User", "Action", "Details"}

STAFF_COLUMNS == {"Username", "Department", "Position"}

USERS_COLUMNS == {"Username", "PasswordHash", "Role", "Active"}

SETTINGS_COLUMNS == {"Key", "Value"}

ROLES == {"Admin", "Clerk", "Viewer"}

\* Python's None as a row index.
None == 0

\* The columns whose cells hold numbers once save_item has parsed the form;
\* every other column holds text.
NumericColumns == {"Quantity", "Unit Price", "Low Stock Threshold"}

\* The columns load_sheet cleans up as text.
TextColumns ==
    {"Serial Number", "Barcode", "Product Name", "Category", "Location",
     "Username"}

(***************************************************************************)
(* Text conversions, as tables over the strings the model uses.            *)
(***************************************************************************)
\* int(float(text or 0)) and float(text or 0.0) of save_item: the empty
\* string and text that is no number give 0.
TextToNumber(s) ==
    CASE s = "1" -> 1
      [] s = "2" -> 2
      [] s = "3" -> 3
      [] s = "4" -> 4
      [] s = "5" -> 5
      [] s = "10" -> 10
      [] s = "20" -> 20
      [] OTHER -> 0

\* str(v).strip().lower()
StripLower(v) ==
    CASE v = "Yes" -> "yes"
      [] v = "YES" -> "yes"
      [] v = "No" -> "no"
      [] v = "NO" -> "no"
      [] v = "True" -> "true"
      [] v = "TRUE" -> "true"
      [] v = "Y" -> "y"
      [] v = "T" -> "t"
      [] v = " yes " -> "yes"
      [] v = " No" -> "no"
      [] OTHER -> v

TruthyTokens == {"true", "1", "yes", "y", "t"}

\* A clean-up that fills the blank cell with "" before it is made text.
AsTypeStrFillingFirst(v) == v

\* What pandas reads back for a text cell that was saved empty: the cell is
\* read as NaN, and astype(str) turns NaN into the text "nan" before
\* fillna("") can see it.
AsTypeStr(v) == IF v = "" THEN "nan" ELSE v

\* A normalisation that takes a blank cell for available.
NormalizeAvailableBlankYes(v) ==
    IF v = "" \/ StripLower(AsTypeStr(v)) \in TruthyTokens THEN "Yes" ELSE "No"

\* The Available normalisation of load_sheet.
NormalizeAvailable(v) ==
    IF StripLower(AsTypeStr(v)) \in TruthyTokens THEN "Yes" ELSE "No"

(***************************************************************************)
(* load_sheet and save_sheet.  The workbook maps a sheet name to the rows  *)
(* last written to it.                                                     *)
(***************************************************************************)
LoadCell(col, v) ==
    IF col \in NumericColumns THEN v
    ELSE IF col = "Available" THEN NormalizeAvailable(v)
    ELSE IF col \in TextColumns THEN AsTypeStr(v)
    \* the Active cells of the Users sheet: True when the cell reads true
    ELSE IF col = "Active" THEN v = TRUE
    ELSE v

LoadRow(row) == [col \in DOMAIN row |-> LoadCell(col, row[col])]

\* required_cols as the callers of load_sheet pass it for each sheet.
RequiredColumns(sheet) ==
    CASE sheet = INVENTORY_SHEET -> INVENTORY_COLUMNS
      [] sheet = ISSUED_SHEET -> ISSUED_COLUMNS
      [] sheet = HISTORY_SHEET -> HISTORY_COLUMNS
      [] sheet = STAFF_SHEET -> STAFF_COLUMNS
      [] sheet = USERS_SHEET -> USERS_COLUMNS
      [] sheet = SETTINGS_SHEET -> SETTINGS_COLUMNS

\* The cell load_sheet leaves in a required column the sheet read does
\* not have: the default it fills the column with, after the
\* normalisations that follow (to_numeric turns the "" of a missing Low
\* Stock Threshold into 0, astype(str) leaves the text "" as it is).
ColumnDefault(col) ==
    IF col \in NumericColumns THEN 0
    ELSE IF col = "Available" THEN "Yes"
    ELSE IF col = "Active" THEN TRUE
    ELSE ""

load_sheet(wb, sheet) ==
    [i \in 1..Len(wb[sheet]) |->
        LoadRow(wb[sheet][i])
            @@ [col \in RequiredColumns(sheet) \ DOMAIN wb[sheet][i] |->
                   ColumnDefault(col)]]

\* A writer that starts the file anew: the other sheets lose their rows.
save_sheet_anew(wb, df, sheet) ==
    [s \in DOMAIN wb |-> IF s = sheet THEN df ELSE << >>]

save_sheet(wb, df, sheet) == [wb EXCEPT ![sheet] = df]

HistoryEvent(user, action, details) ==
    [c \in HISTORY_COLUMNS |->
        CASE c = "User" -> user
          [] c = "Action" -> action
          [] c = "Details" -> details]

\* A ledger that keeps the newest event first.
append_history_on_top(wb, user, action, details) ==
    save_sheet(wb,
               <<HistoryEvent(user, action, details)>>
                   \o load_sheet(wb, HISTORY_SHEET),
               HISTORY_SHEET)

\* append_history: the sheet is loaded, the event concatenated after its
\* rows, and the whole frame saved.
append_history(wb, user, action, details) ==
    save_sheet(wb,
               Append(load_sheet(wb, HISTORY_SHEET),
                      HistoryEvent(user, action, details)),
               HISTORY_SHEET)

(***************************************************************************)
(* Data-frame helpers.                                                     *)
(***************************************************************************)
\* df.drop(index=ix).reset_index(drop=True)
DropRow(df, ix) ==
    [i \in 1..(Len(df) - 1) |-> IF i < ix THEN df[i] ELSE df[i + 1]]

\* The first row of df whose column col equals v, or None.
FirstIndex(df, col, v) ==
    IF \E i \in 1..Len(df) : df[i][col] = v
    THEN CHOOSE i \in 1..Len(df) :
            /\ df[i][col] = v
            /\ \A j \in 1..(i - 1) : df[j][col] /= v
    ELSE None

\* The same lookup with the barcode consulted only when serial is empty.
FindSerialOnly(df, serial, barcode) ==
    IF serial /= "" THEN FirstIndex(df, "Serial Number", serial)
    ELSE IF barcode /= "" THEN FirstIndex(df, "Barcode", barcode)
    ELSE None

\* InventoryApp._find_item_index
find_item_index(df, serial, barcode) ==
    IF serial /= "" /\ FirstIndex(df, "Serial Number", serial) /= None
    THEN FirstIndex(df, "Serial Number", serial)
    ELSE IF barcode /= "" /\ FirstIndex(df, "Barcode", barcode) /= None
    THEN FirstIndex(df, "Barcode", barcode)
    ELSE None

(***************************************************************************)
(* Rows.                                                                   *)
(***************************************************************************)
InventoryRow(pn, cat, sn, bc, av, loc, qty, price, lst) ==
    [c \in INVENTORY_COLUMNS |->
        CASE c = "Product Name" -> pn
          [] c = "Category" -> cat
          [] c = "Serial Number" -> sn
          [] c = "Barcode" -> bc
          [] c = "Available" -> av
          [] c = "Location" -> loc
          [] c = "Quantity" -> qty
          [] c = "Unit Price" -> price
          [] c = "Low Stock Threshold" -> lst]

\* An Issued record that loses the staff it was issued to.
IssuedRecordWithoutStaff(r, staff, dept, pos) ==
    [c \in ISSUED_COLUMNS |->
        CASE c = "Issued To" -> ""
          [] c = "Department" -> dept
          [] c = "Position" -> pos
          [] OTHER -> r[c]]

\* The record do_issue appends to the Issued sheet: a snapshot of
\* inventory row r and the staff fields of the form.
IssuedRecord(r, staff, dept, pos) ==
    [c \in ISSUED_COLUMNS |->
        CASE c = "Issued To" -> staff
          [] c = "Department" -> dept
          [] c = "Position" -> pos
          [] OTHER -> r[c]]

\* A created row that takes the quantity for 0, the default of a missing
\* Quantity column.
ReturnedRowWithoutQuantity(rec) ==
    InventoryRow(rec["Product Name"], rec["Category"], rec["Serial Number"],
                 rec["Barcode"], "Yes", "", 0, 0, 0)

\* The inventory row do_return creates when no row matches the record.
ReturnedRow(rec) ==
    InventoryRow(rec["Product Name"], rec["Category"], rec["Serial Number"],
                 rec["Barcode"], "Yes", "", 1, 0, 0)

\* The Staff sheet.  No handler of this model writes it.
StaffSheet ==
    << [Username |-> "alice", Department |-> "IT", Position |-> "Engineer"],
       [Username |-> "bob", Department |-> "Stores", Position |-> "Clerk"] >>

\* InventoryApp._get_staff_choices, and the combobox's initial empty value.
StaffChoices == {StaffSheet[i].Username : i \in 1..Len(StaffSheet)} \cup {""}

\* on_staff: the Department and Position the form shows for staff s.
StaffField(s, col) ==
    IF \E i \in 1..Len(StaffSheet) : StaffSheet[i].Username = s
    THEN StaffSheet[CHOOSE i \in 1..Len(StaffSheet) :
                        StaffSheet[i].Username = s][col]
    ELSE ""

(***************************************************************************)
(* The item form of _item_form: the text of each entry, stripped.          *)
(***************************************************************************)
\* new_row of save_item after "types/defaults": the numeric entries parsed,
\* an empty Available entry replaced by "Yes".
ParseForm(form) ==
    [c \in INVENTORY_COLUMNS |->
        IF c \in NumericColumns THEN TextToNumber(form[c])
        ELSE IF c = "Available" /\ form[c] = "" THEN "Yes"
        ELSE form[c]]

\* A validation that lets every form through.
NeverMissingIdentity(new_row) == FALSE

\* save_item's validation: neither a serial number nor a barcode.
MissingIdentity(new_row) ==
    new_row["Serial Number"] = "" /\ new_row["Barcode"] = ""

\* The columns the merge branch of save_item copies from new_row.
MergeColumns ==
    {"Product Name", "Category", "Location", "Unit Price",
     "Low Stock Threshold", "Barcode", "Serial Number", "Available"}

\* Python's v != "" on a cell of new_row: a number never equals "".
NotEmptyString(col, v) == IF col \in NumericColumns THEN TRUE ELSE v /= ""

\* A merge that replaces the quantity instead of adding to it.
MergeRowReplacingQuantity(old, new_row) ==
    [c \in DOMAIN old |->
        IF c = "Quantity" THEN new_row[c]
        ELSE IF c \in MergeColumns /\ NotEmptyString(c, new_row[c])
        THEN new_row[c]
        ELSE old[c]]

\* A merge in which only the first add sets a text field.
MergeRowKeepingOld(old, new_row) ==
    [c \in DOMAIN old |->
        IF c = "Quantity" THEN old[c] + new_row[c]
        ELSE IF c \in MergeColumns /\ NotEmptyString(c, new_row[c])
                /\ (c \in NumericColumns \/ old[c] \in {"", "nan"})
        THEN new_row[c]
        ELSE old[c]]

\* save_item, mode "add", a matching row exists: the row after the merge.
MergeRow(old, new_row) ==
    [c \in DOMAIN old |->
        IF c = "Quantity" THEN old[c] + new_row[c]
        ELSE IF c \in MergeColumns /\ NotEmptyString(c, new_row[c])
        THEN new_row[c]
        ELSE old[c]]

(***************************************************************************)
(* The two workbooks as ensure_workbooks_exist creates them.               *)
(***************************************************************************)
\* hashlib.sha256(pw).hexdigest(): a text that names the password hashed
\* and that no password equals.
hash_pw(pw) == "sha256(" \o pw \o ")"

\* check_pw: an empty PasswordHash cell reads as NaN, and str(NaN) is "nan".
check_pw(pw, pw_hash) == hash_pw(pw) = AsTypeStr(pw_hash)

DefaultAdminPassword == "Admin@2028"

UserRow(username, pw_hash, role, active) ==
    [c \in USERS_COLUMNS |->
        CASE c = "Username" -> username
          [] c = "PasswordHash" -> pw_hash
          [] c = "Role" -> role
          [] c = "Active" -> active]

\* The Users row _create_workbook seeds and ensure_admin_user appends.
SeedAdmin == UserRow("admin", hash_pw(DefaultAdminPassword), "Admin", TRUE)

SettingRow(key, value) ==
    [c \in SETTINGS_COLUMNS |-> IF c = "Key" THEN key ELSE value]

SeedSettings ==
    << SettingRow("camera_index", "0"), SettingRow("backup_enabled", "1"),
       SettingRow("ad_server", ""), SettingRow("ad_base_dn", ""),
       SettingRow("ad_user", "") >>

\* Nkhokwe.xlsx, new, with the staff of StaffSheet registered.
NewDataWorkbook ==
    [s \in {INVENTORY_SHEET, ISSUED_SHEET, HISTORY_SHEET, STAFF_SHEET} |->
        IF s = STAFF_SHEET THEN StaffSheet ELSE << >>]

\* Nkhokwe_Auth.xlsx, new.
NewAuthWorkbook ==
    [s \in {USERS_SHEET, SETTINGS_SHEET} |->
        IF s = USERS_SHEET THEN <<SeedAdmin>> ELSE SeedSettings]

\* The save_sheet calls of a handler that issues or returns: the two
\* frames, then the History sheet by append_history.
IssueWrites == <<INVENTORY_SHEET, ISSUED_SHEET, HISTORY_SHEET>>

\* A batch that saves the two frames after every item.
RECURSIVE BatchWritesEachItem(_)
BatchWritesEachItem(count) ==
    IF count = 0 THEN << >>
    ELSE <<INVENTORY_SHEET, ISSUED_SHEET>> \o BatchWritesEachItem(count - 1)
             \o (IF count = 1 THEN <<HISTORY_SHEET>> ELSE << >>)

\* The save_sheet calls of batch_issue.process and batch_return.process
\* once the loop has taken count items: none inside the loop.
BatchWrites(count) == IF count > 0 THEN IssueWrites ELSE << >>

(***************************************************************************)
(* State.                                                                  *)
(***************************************************************************)
VARIABLES
    workbook,       \* the persisted sheets: sheet name -> rows as written
    inventory_df,   \* self.inventory_df
    issued_df,      \* self.issued_df
    current_user,   \* self.current_user
    current_role,   \* self.current_role
    page,           \* the page _open_inline last built in table_frame
    df_index,       \* the row the edit form was opened on (None otherwise)
    inv_tree,       \* self.inv_tree: "unset", "alive" or "destroyed"
    msg,            \* the text of the dialog the last handler showed
    scen,           \* how many steps of the SN1 scenario have just been run
    last_add,       \* <<form>> when the last mutation was an add that
                    \* appended a row from that form, else << >>
    auth_workbook,  \* the persisted sheets of Nkhokwe_Auth.xlsx
    writes,         \* the sheets the last handler saved, in the order of
                    \* its save_sheet calls
    side_files,     \* the files save_sheet and _add_missing_sheets leave
                    \* beside the two workbooks in data/: backups and
                    \* quarantined files, each a name and a content
    other_session   \* the InventoryApp of a second process started on
                    \* the same data/ directory, as <<its attributes>>,
                    \* or << >> while there is none

vars ==
    <<workbook, inventory_df, issued_df, current_user, current_role, page,
      df_index, inv_tree, msg, scen, last_add, auth_workbook, writes,
      side_files, other_session>>

\* A check that lets the Clerk pass as well.
is_admin_or_clerk == current_role \in {"Admin", "Clerk"}

is_admin == current_role = "Admin"
is_clerk == current_role \in {"Admin", "Clerk"}

\* _clear_content destroys the widgets of the page shown, the inventory
\* tree among them when that page is the inventory page.
ClearContent(tree) == IF tree = "alive" THEN "destroyed" ELSE tree

\* Whether _refresh_inventory_table raises: it returns at once while
\* self.inv_tree is unset, and a Tk call on a destroyed widget raises
\* TclError.
RefreshRaises(tree) == tree = "destroyed"

TclError == "invalid command name"

Init ==
    /\ workbook = NewDataWorkbook
    /\ auth_workbook = NewAuthWorkbook
    /\ side_files = {}
    /\ other_session = << >>
    /\ writes = << >>
    /\ inventory_df = << >>
    /\ issued_df = << >>
    \* the built-in account of a new Nkhokwe_Auth.xlsx, logged in
    /\ current_user = "admin"
    /\ current_role = "Admin"
    /\ page = "dashboard"
    /\ df_index = None
    /\ inv_tree = "unset"
    /\ msg = ""
    /\ scen = 0
    /\ last_add = << >>

(***************************************************************************)
(* The SN1 scenario, followed by scen: add SN1 (5 at 10.0), add SN1 (3),   *)
(* issue SN1 to alice, return SN1.                                         *)
(***************************************************************************)
BlankForm == InventoryRow("", "", "", "", "", "", "", "", "")

ScenarioOps ==
    << <<"add", [BlankForm EXCEPT !["Serial Number"] = "SN1",
                                  !["Quantity"] = "5",
                                  !["Unit Price"] = "10"]>>,
       <<"add", [BlankForm EXCEPT !["Serial Number"] = "SN1",
                                  !["Quantity"] = "3"]>>,
       <<"issue", "SN1", "alice">>,
       <<"return", "SN1", "">> >>

\* scen after a handler has changed the store by operation op.
ScenAfter(op) ==
    IF /\ scen \in 0..(Len(ScenarioOps) - 1)
       /\ op[1] = ScenarioOps[scen + 1][1]
       /\ op = ScenarioOps[scen + 1]
    THEN scen + 1
    ELSE -1

(***************************************************************************)
(* Navigation.                                                             *)
(***************************************************************************)
\* show_inventory builds a new tree and fills it with
\* _refresh_inventory_table, which reloads self.inventory_df.
show_inventory ==
    /\ UNCHANGED <<side_files, other_session>>
    /\ page /= "login"
    /\ page' = "inventory"
    /\ inv_tree' = "alive"
    /\ inventory_df' = load_sheet(workbook, INVENTORY_SHEET)
    /\ df_index' = None
    /\ msg' = ""
    /\ writes' = << >>
    /\ UNCHANGED <<workbook, issued_df, current_user, current_role,
                   auth_workbook, scen, last_add>>

show_issued ==
    /\ UNCHANGED <<side_files, other_session>>
    /\ page /= "login"
    /\ page' = "issued"
    /\ inv_tree' = ClearContent(inv_tree)
    /\ issued_df' = load_sheet(workbook, ISSUED_SHEET)
    /\ df_index' = None
    /\ msg' = ""
    /\ writes' = << >>
    /\ UNCHANGED <<workbook, inventory_df, current_user, current_role,
                   auth_workbook, scen, last_add>>

\* The "Add Item" button: _item_form("add"), whose category combobox
\* reloads self.inventory_df (_get_category_choices_list).
add_item_form ==
    /\ UNCHANGED <<side_files, other_session>>
    /\ page = "inventory"
    /\ page' = "add_item_form"
    /\ inv_tree' = ClearContent(inv_tree)
    /\ inventory_df' = load_sheet(workbook, INVENTORY_SHEET)
    /\ df_index' = None
    /\ msg' = ""
    /\ writes' = << >>
    /\ UNCHANGED <<workbook, issued_df, current_user, current_role,
                   auth_workbook, scen, last_add>>

\* The "Edit Item" button with row idx selected in the tree.
edit_item_form(idx) ==
    /\ UNCHANGED <<side_files, other_session>>
    /\ page = "inventory"
    /\ idx \in 1..Len(inventory_df)
    /\ page' = "edit_item_form"
    /\ inv_tree' = ClearContent(inv_tree)
    /\ inventory_df' = load_sheet(workbook, INVENTORY_SHEET)
    /\ df_index' = idx
    /\ msg' = ""
    /\ writes' = << >>
    /\ UNCHANGED <<workbook, issued_df, current_user, current_role,
                   auth_workbook, scen, last_add>>

issue_item_form ==
    /\ UNCHANGED <<side_files, other_session>>
    /\ page = "inventory"
    /\ page' = "issue_item_form"
    /\ inv_tree' = ClearContent(inv_tree)
    /\ df_index' = None
    /\ msg' = ""
    /\ writes' = << >>
    /\ UNCHANGED <<workbook, inventory_df, issued_df, current_user,
                   current_role, auth_workbook, scen, last_add>>

return_item ==
    /\ UNCHANGED <<side_files, other_session>>
    /\ page = "issued"
    /\ page' = "return_item"
    /\ inv_tree' = ClearContent(inv_tree)
    /\ df_index' = None
    /\ msg' = ""
    /\ writes' = << >>
    /\ UNCHANGED <<workbook, inventory_df, issued_df, current_user,
                   current_role, auth_workbook, scen, last_add>>

(***************************************************************************)
(* save_item: the Save button of the add and the edit form.                *)
(***************************************************************************)
\* self.inventory_df after the "merge or add" step of mode "add".
AddedInventory(df, new_row) ==
    LET ix == find_item_index(df, new_row["Serial Number"], new_row["Barcode"])
    IN  IF ix /= None
        THEN [df EXCEPT ![ix] = MergeRow(df[ix], new_row)]
        ELSE Append(df, new_row)

\* An edit that keeps the field of the row where the entry is empty.
EditedInventoryKeepingEmpty(df, idx, new_row) ==
    [df EXCEPT ![idx] = [c \in DOMAIN new_row |->
                            IF c \in TextColumns /\ new_row[c] = ""
                            THEN df[idx][c] ELSE new_row[c]]]

\* self.inventory_df after the overwrite of mode "edit".
EditedInventory(df, idx, new_row) == [df EXCEPT ![idx] = new_row]

\* What a handler leaves behind once the store is written: it calls
\* _refresh_inventory_table and then (save_item, do_issue) show_inventory,
\* and shows the dialog done.  When the refresh raises TclError, the rest
\* of the handler is skipped and the page stays.
AfterRefresh(df, wb, done) ==
    IF RefreshRaises(inv_tree)
    THEN /\ inventory_df' = df
         /\ page' = page
         /\ inv_tree' = inv_tree
         /\ df_index' = df_index
         /\ msg' = TclError
    ELSE /\ inventory_df' = load_sheet(wb, INVENTORY_SHEET)
         /\ page' = "inventory"
         /\ inv_tree' = "alive"
         /\ df_index' = None
         /\ msg' = done

save_item(form, limit) ==
    /\ UNCHANGED <<side_files, other_session>>
    /\ page \in {"add_item_form", "edit_item_form"}
    /\ LET new_row == ParseForm(form)
           sn == new_row["Serial Number"]
           bc == new_row["Barcode"]
           ix == find_item_index(inventory_df, sn, bc)
           df == IF page = "add_item_form"
                 THEN AddedInventory(inventory_df, new_row)
                 ELSE EditedInventory(inventory_df, df_index, new_row)
           action == IF page = "add_item_form" /\ ix = None
                     THEN "ADD" ELSE "EDIT"
           details == IF page = "edit_item_form"
                      THEN <<"idx=", ToString(df_index - 1)>>
                      ELSE IF ix /= None
                      THEN <<"Merge add SN:", sn, "BC:", bc>>
                      ELSE <<"SN:", sn, "BC:", bc>>
           wb == save_sheet(
                     append_history(workbook, current_user, action, details),
                     df, INVENTORY_SHEET)
       IN  IF MissingIdentity(new_row)
           THEN /\ msg' = "Enter Serial Number or Barcode."
                /\ writes' = << >>
                /\ UNCHANGED <<workbook, inventory_df, issued_df,
                               current_user, current_role, auth_workbook,
                               page, df_index, inv_tree, scen, last_add>>
           ELSE /\ Len(workbook[HISTORY_SHEET]) < limit
                /\ Len(df) <= MaxRows
                /\ \A i \in 1..Len(df) : df[i]["Quantity"] <= MaxQty
                /\ workbook' = wb
                /\ AfterRefresh(df, wb, "")
                /\ scen' = ScenAfter(<<IF page = "add_item_form"
                                       THEN "add" ELSE "edit", form>>)
                /\ last_add' = IF page = "add_item_form" /\ ix = None
                               THEN <<form>> ELSE << >>
                /\ writes' = <<HISTORY_SHEET, INVENTORY_SHEET>>
                /\ UNCHANGED <<issued_df, current_user, current_role,
                               auth_workbook>>

(***************************************************************************)
(* delete_item: the "Delete Item" button with row idx selected, the        *)
(* confirmation answered yes.                                              *)
(***************************************************************************)
delete_item(idx) ==
    /\ UNCHANGED <<side_files, other_session>>
    /\ page = "inventory"
    /\ idx \in 1..Len(inventory_df)
    /\ Len(workbook[HISTORY_SHEET]) < MaxHist
    /\ LET sn == inventory_df[idx]["Serial Number"]
           df == DropRow(inventory_df, idx)
           wb == append_history(save_sheet(workbook, df, INVENTORY_SHEET),
                                current_user, "DELETE", <<"SN:", sn>>)
       IN  /\ workbook' = wb
           /\ AfterRefresh(df, wb, "Deleted")
           /\ scen' = ScenAfter(<<"delete", idx>>)
           /\ last_add' = << >>
           /\ writes' = <<INVENTORY_SHEET, HISTORY_SHEET>>
           /\ UNCHANGED <<issued_df, current_user, current_role,
                          auth_workbook>>

(***************************************************************************)
(* do_issue: the Issue button of the issue form, with the code typed and   *)
(* the staff selected.                                                     *)
(***************************************************************************)
\* Whether do_issue takes row r for available.
IsAvailable(r) == StripLower(r["Available"]) \in TruthyTokens

\* A do_issue that does not look at the Available flag.
IssueRefusalIgnoringStock(df, role, code, staff) ==
    LET ix == find_item_index(df, code, code)
    IN  IF ix = None THEN "Not found"
        ELSE IF role \notin {"Admin", "Clerk"} THEN "Insufficient permissions."
        ELSE IF staff = "" THEN "Select staff."
        ELSE ""

\* The dialog do_issue refuses with, or "" when it goes ahead.
IssueRefusal(df, role, code, staff) ==
    LET ix == find_item_index(df, code, code)
    IN  IF ix = None THEN "Not found"
        ELSE IF role \notin {"Admin", "Clerk"} THEN "Insufficient permissions."
        ELSE IF ~IsAvailable(df[ix]) THEN "Item already issued."
        ELSE IF staff = "" THEN "Select staff."
        ELSE ""

\* f"{r.get('Serial Number', '') or r.get('Barcode', '')}"
SerialOrBarcode(r) ==
    IF r["Serial Number"] /= "" THEN r["Serial Number"] ELSE r["Barcode"]

do_issue(code, staff) ==
    /\ UNCHANGED <<side_files, other_session>>
    /\ page = "issue_item_form"
    /\ LET refusal == IssueRefusal(inventory_df, current_role, code, staff)
           ix == find_item_index(inventory_df, code, code)
           r == inventory_df[ix]
           df == [inventory_df EXCEPT ![ix]["Available"] = "No"]
           iss == Append(issued_df,
                         IssuedRecord(r, staff, StaffField(staff, "Department"),
                                      StaffField(staff, "Position")))
           wb == append_history(
                     save_sheet(save_sheet(workbook, df, INVENTORY_SHEET),
                                iss, ISSUED_SHEET),
                     current_user, "ISSUE",
                     <<SerialOrBarcode(r), "->", staff>>)
       IN  IF refusal /= ""
           THEN /\ msg' = refusal
                /\ writes' = << >>
                /\ UNCHANGED <<workbook, inventory_df, issued_df,
                               current_user, current_role, auth_workbook,
                               page, df_index, inv_tree, scen, last_add>>
           ELSE /\ Len(workbook[HISTORY_SHEET]) < MaxHist
                /\ workbook' = wb
                /\ issued_df' = iss
                /\ AfterRefresh(df, wb, "Issued")
                /\ scen' = ScenAfter(<<"issue", code, staff>>)
                /\ last_add' = << >>
                /\ writes' = IssueWrites
                /\ UNCHANGED <<current_user, current_role, auth_workbook>>

(***************************************************************************)
(* do_return: the Return button of the return form, with the code typed.   *)
(***************************************************************************)
\* The first record of the Issued frame whose serial number or barcode is
\* code, or None.
IssuedIndex(iss, code) ==
    IF \E i \in 1..Len(iss) :
          iss[i]["Serial Number"] = code \/ iss[i]["Barcode"] = code
    THEN CHOOSE i \in 1..Len(iss) :
            /\ iss[i]["Serial Number"] = code \/ iss[i]["Barcode"] = code
            /\ \A j \in 1..(i - 1) :
                  iss[j]["Serial Number"] /= code /\ iss[j]["Barcode"] /= code
    ELSE None

\* A return that leaves the Available flag of the matching row alone.
ReturnedInventoryLeavingFlag(df, rec) ==
    LET inv_ix == find_item_index(df, rec["Serial Number"], rec["Barcode"])
    IN  IF inv_ix = None THEN Append(df, ReturnedRow(rec)) ELSE df

\* self.inventory_df after the return of Issued record rec.
ReturnedInventory(df, rec) ==
    LET inv_ix == find_item_index(df, rec["Serial Number"], rec["Barcode"])
    IN  IF inv_ix = None
        THEN Append(df, ReturnedRow(rec))
        ELSE [df EXCEPT ![inv_ix]["Available"] = "Yes"]

do_return(code) ==
    /\ UNCHANGED <<side_files, other_session>>
    /\ page = "return_item"
    /\ LET ix == IssuedIndex(issued_df, code)
           rec == issued_df[ix]
           df == ReturnedInventory(inventory_df, rec)
           iss == DropRow(issued_df, ix)
           wb == append_history(
                     save_sheet(save_sheet(workbook, df, INVENTORY_SHEET),
                                iss, ISSUED_SHEET),
                     current_user, "RETURN", <<SerialOrBarcode(rec)>>)
       IN  IF ix = None
           THEN /\ msg' = "Not found"
                /\ writes' = << >>
                /\ UNCHANGED <<workbook, inventory_df, issued_df,
                               current_user, current_role, auth_workbook,
                               page, df_index, inv_tree, scen, last_add>>
           ELSE /\ Len(workbook[HISTORY_SHEET]) < MaxHist
                /\ Len(df) <= MaxRows
                /\ workbook' = wb
                /\ inventory_df' = df
                \* show_issued reloads self.issued_df
                /\ issued_df' = load_sheet(wb, ISSUED_SHEET)
                /\ page' = "issued"
                /\ inv_tree' = ClearContent(inv_tree)
                /\ df_index' = None
                /\ msg' = "Returned"
                /\ scen' = ScenAfter(<<"return", code, "">>)
                /\ last_add' = << >>
                /\ writes' = IssueWrites
                /\ UNCHANGED <<current_user, current_role, auth_workbook>>

(***************************************************************************)
(* batch_return: the "Batch Return" button of the Issued page and the      *)
(* Done button of its form (process).                                      *)
(***************************************************************************)
batch_return ==
    /\ UNCHANGED <<side_files, other_session>>
    /\ page = "issued"
    /\ page' = "batch_return"
    /\ inv_tree' = ClearContent(inv_tree)
    /\ df_index' = None
    /\ msg' = ""
    /\ writes' = << >>
    /\ UNCHANGED <<workbook, inventory_df, issued_df, current_user,
                   current_role, auth_workbook, scen, last_add>>

\* The loop of process over the codes: the frames and the count it ends
\* with.  A code that names no Issued record is skipped.
RECURSIVE BatchReturned(_, _, _, _)
BatchReturned(df, iss, codes, count) ==
    IF codes = << >>
    THEN [inventory_df |-> df, issued_df |-> iss, count |-> count]
    ELSE LET ix == IssuedIndex(iss, Head(codes))
         IN  IF ix = None
             THEN BatchReturned(df, iss, Tail(codes), count)
             ELSE BatchReturned(ReturnedInventory(df, iss[ix]),
                                DropRow(iss, ix), Tail(codes), count + 1)

\* [c.strip() for c in lines if c.strip()]: the lines of the text box
\* with the blank ones left out.
StrippedLines(lines) == SelectSeq(lines, LAMBDA c : c /= "")

batch_return_process(codes) ==
    /\ UNCHANGED <<side_files, other_session>>
    /\ page = "batch_return"
    /\ LET out == BatchReturned(inventory_df, issued_df,
                                 StrippedLines(codes), 0)
           wb == IF out.count > 0
                 THEN append_history(
                          save_sheet(save_sheet(workbook, out.inventory_df,
                                                INVENTORY_SHEET),
                                     out.issued_df, ISSUED_SHEET),
                          current_user, "RETURN_BATCH",
                          <<ToString(out.count), "items">>)
                 ELSE workbook
       IN  /\ out.count > 0 => Len(workbook[HISTORY_SHEET]) < MaxHist
           /\ Len(out.inventory_df) <= MaxRows
           /\ workbook' = wb
           /\ inventory_df' = out.inventory_df
           \* show_issued reloads self.issued_df
           /\ issued_df' = load_sheet(wb, ISSUED_SHEET)
           /\ page' = "issued"
           /\ inv_tree' = ClearContent(inv_tree)
           /\ df_index' = None
           /\ msg' = "Returned " \o ToString(out.count) \o " items."
           /\ scen' = IF out.count > 0 THEN -1 ELSE scen
           /\ last_add' = IF out.count > 0 THEN << >> ELSE last_add
           /\ writes' = BatchWrites(out.count)
           /\ UNCHANGED <<current_user, current_role, auth_workbook>>

(***************************************************************************)
(* batch_issue: the "Batch Issue" button of the Inventory page and the     *)
(* Done button of its form (process).                                      *)
(***************************************************************************)
batch_issue ==
    /\ UNCHANGED <<side_files, other_session>>
    /\ page = "inventory"
    /\ page' = "batch_issue"
    /\ inv_tree' = ClearContent(inv_tree)
    /\ df_index' = None
    /\ msg' = ""
    /\ writes' = << >>
    /\ UNCHANGED <<workbook, inventory_df, issued_df, current_user,
                   current_role, auth_workbook, scen, last_add>>

\* Whether batch_issue.process takes row r for available.
IsYes(r) == StripLower(r["Available"]) = "yes"

\* A loop that issues a row whatever its Available flag.
RECURSIVE BatchIssuedIgnoringStock(_, _, _, _, _, _, _)
BatchIssuedIgnoringStock(df, iss, codes, staff, dept, pos, count) ==
    IF codes = << >>
    THEN [inventory_df |-> df, issued_df |-> iss, count |-> count]
    ELSE LET ix == find_item_index(df, Head(codes), Head(codes))
         IN  IF ix = None
             THEN BatchIssuedIgnoringStock(df, iss, Tail(codes), staff, dept,
                                           pos, count)
             ELSE BatchIssuedIgnoringStock(
                      [df EXCEPT ![ix]["Available"] = "No"],
                      Append(iss, IssuedRecord(df[ix], staff, dept, pos)),
                      Tail(codes), staff, dept, pos, count + 1)

\* A loop that takes one unit of the row's quantity with every issue.
RECURSIVE BatchIssuedTakingStock(_, _, _, _, _, _, _)
BatchIssuedTakingStock(df, iss, codes, staff, dept, pos, count) ==
    IF codes = << >>
    THEN [inventory_df |-> df, issued_df |-> iss, count |-> count]
    ELSE LET ix == find_item_index(df, Head(codes), Head(codes))
         IN  IF ix = None \/ ~IsYes(df[ix])
             THEN BatchIssuedTakingStock(df, iss, Tail(codes), staff, dept,
                                         pos, count)
             ELSE BatchIssuedTakingStock(
                      [df EXCEPT ![ix]["Available"] = "No",
                                 ![ix]["Quantity"] = @ - 1],
                      Append(iss, IssuedRecord(df[ix], staff, dept, pos)),
                      Tail(codes), staff, dept, pos, count + 1)

\* The loop of process over the codes: the frames and the count it ends
\* with.  A code that finds no row, or a row that is out, is skipped.
RECURSIVE BatchIssued(_, _, _, _, _, _, _)
BatchIssued(df, iss, codes, staff, dept, pos, count) ==
    IF codes = << >>
    THEN [inventory_df |-> df, issued_df |-> iss, count |-> count]
    ELSE LET ix == find_item_index(df, Head(codes), Head(codes))
         IN  IF ix = None \/ ~IsYes(df[ix])
             THEN BatchIssued(df, iss, Tail(codes), staff, dept, pos, count)
             ELSE BatchIssued([df EXCEPT ![ix]["Available"] = "No"],
                              Append(iss, IssuedRecord(df[ix], staff, dept, pos)),
                              Tail(codes), staff, dept, pos, count + 1)

\* process, with the lines codes typed, staff selected and dept and pos
\* typed into the Dept and Position entries.  limit bounds the History.
batch_issue_process(codes, staff, dept, pos, limit) ==
    /\ UNCHANGED <<side_files, other_session>>
    /\ page = "batch_issue"
    /\ LET out == BatchIssued(inventory_df, issued_df, codes, staff, dept,
                              pos, 0)
           wb == IF out.count > 0
                 THEN append_history(
                          save_sheet(save_sheet(workbook, out.inventory_df,
                                                INVENTORY_SHEET),
                                     out.issued_df, ISSUED_SHEET),
                          current_user, "ISSUE_BATCH",
                          <<ToString(out.count), "items ->", staff>>)
                 ELSE workbook
       IN  IF staff = ""
           THEN /\ msg' = "Select staff."
                /\ writes' = << >>
                /\ UNCHANGED <<workbook, inventory_df, issued_df,
                               current_user, current_role, auth_workbook,
                               page, df_index, inv_tree, scen, last_add>>
           ELSE /\ out.count > 0 => Len(workbook[HISTORY_SHEET]) < limit
                /\ workbook' = wb
                /\ issued_df' = out.issued_df
                /\ AfterRefresh(out.inventory_df, wb,
                                "Issued " \o ToString(out.count) \o " items.")
                /\ scen' = IF out.count > 0 THEN -1 ELSE scen
                /\ last_add' = IF out.count > 0 THEN << >> ELSE last_add
                /\ writes' = BatchWrites(out.count)
                /\ UNCHANGED <<current_user, current_role, auth_workbook>>

(***************************************************************************)
(* import_csv: the "Import CSV" button of the sidebar, with the rows of    *)
(* the file chosen.  An empty cell of the file is read as NaN, written ""  *)
(* here as an empty cell of a sheet is.                                    *)
(***************************************************************************)
\* self._find_item_index(row.get("Serial Number", ""), row.get("Barcode",
\* "")) on self.inventory_df: NaN is true in Python and str(NaN) is "nan".
ImportIndex(df, row) ==
    find_item_index(df, AsTypeStr(row["Serial Number"]),
                    AsTypeStr(row["Barcode"]))

\* The loop over the rows of the file: mem is self.inventory_df, which
\* the loop searches, and inv the frame loaded at the start, which it
\* changes.  inv.at[ix, "Quantity"] of a row inv lacks raises KeyError.
RECURSIVE Imported(_, _, _)
Imported(mem, inv, rows) ==
    IF rows = << >> THEN [ok |-> TRUE, inv |-> inv]
    ELSE LET ix == ImportIndex(mem, Head(rows))
         IN  IF ix = None
             THEN Imported(mem, Append(inv, Head(rows)), Tail(rows))
             ELSE IF ix > Len(inv)
             THEN [ok |-> FALSE, inv |-> inv]
             ELSE Imported(mem,
                           [inv EXCEPT ![ix] = MergeRow(inv[ix], Head(rows))],
                           Tail(rows))

import_csv(rows, limit) ==
    /\ UNCHANGED <<side_files, other_session>>
    /\ page /= "login"
    /\ LET out == Imported(inventory_df,
                           load_sheet(workbook, INVENTORY_SHEET), rows)
           wb == append_history(
                     save_sheet(workbook, out.inv, INVENTORY_SHEET),
                     current_user, "IMPORT", <<"items.csv">>)
       IN  IF ~out.ok
           THEN /\ msg' = "Import error"
                /\ writes' = << >>
                /\ UNCHANGED <<workbook, inventory_df, issued_df,
                               current_user, current_role, auth_workbook,
                               page, df_index, inv_tree, scen, last_add>>
           ELSE /\ Len(workbook[HISTORY_SHEET]) < limit
                /\ Len(out.inv) <= MaxRows
                /\ \A i \in 1..Len(out.inv) : out.inv[i]["Quantity"] <= MaxQty
                /\ workbook' = wb
                \* _refresh_inventory_table reloads the frame when the tree
                \* is there, returns at once when it never was, and raises
                \* into the except clause when it was destroyed
                /\ inventory_df' = IF inv_tree = "alive"
                                   THEN load_sheet(wb, INVENTORY_SHEET)
                                   ELSE out.inv
                /\ msg' = IF RefreshRaises(inv_tree) THEN "Import error"
                          ELSE "Imported/merged " \o ToString(Len(rows))
                                   \o " rows."
                /\ scen' = -1
                /\ last_add' = << >>
                /\ writes' = <<INVENTORY_SHEET, HISTORY_SHEET>>
                /\ UNCHANGED <<issued_df, current_user, current_role,
                               auth_workbook, page, df_index, inv_tree>>

(***************************************************************************)
(* manage_categories: the "Categories" button of the sidebar and the       *)
(* Rename and Remove buttons of its page.  The name selected is any name   *)
(* of the listbox, to which the Add button adds whatever is typed.         *)
(***************************************************************************)
manage_categories ==
    /\ UNCHANGED <<side_files, other_session>>
    /\ page /= "login"
    /\ page' = "categories"
    /\ inv_tree' = ClearContent(inv_tree)
    /\ df_index' = None
    /\ msg' = ""
    /\ writes' = << >>
    /\ UNCHANGED <<workbook, inventory_df, issued_df, current_user,
                   current_role, auth_workbook, scen, last_add>>

\* A rewrite that sets the category of every row.
RecategorizedAll(inv, old, new) ==
    [i \in 1..Len(inv) |-> [inv[i] EXCEPT !["Category"] = new]]

\* inv.loc[inv["Category"] == old, "Category"] = new
Recategorized(inv, old, new) ==
    [i \in 1..Len(inv) |->
        IF inv[i]["Category"] = old
        THEN [inv[i] EXCEPT !["Category"] = new]
        ELSE inv[i]]

\* rename and remove work on a frame they load and save themselves;
\* self.inventory_df is not assigned.
category_rename(old, new, limit) ==
    /\ UNCHANGED <<side_files, other_session>>
    /\ page = "categories"
    /\ new /= ""
    /\ Len(workbook[HISTORY_SHEET]) < limit
    /\ LET inv == Recategorized(load_sheet(workbook, INVENTORY_SHEET),
                                old, new)
       IN  workbook' = append_history(
                           save_sheet(workbook, inv, INVENTORY_SHEET),
                           current_user, "CATEGORY_RENAME",
                           <<old, "->", new>>)
    /\ msg' = ""
    /\ scen' = -1
    /\ last_add' = << >>
    /\ writes' = <<INVENTORY_SHEET, HISTORY_SHEET>>
    /\ UNCHANGED <<inventory_df, issued_df, current_user, current_role,
                   auth_workbook, page, df_index, inv_tree>>

category_remove(v, limit) ==
    /\ UNCHANGED <<side_files, other_session>>
    /\ page = "categories"
    /\ Len(workbook[HISTORY_SHEET]) < limit
    /\ LET inv == Recategorized(load_sheet(workbook, INVENTORY_SHEET), v, "")
       IN  workbook' = append_history(
                           save_sheet(workbook, inv, INVENTORY_SHEET),
                           current_user, "CATEGORY_REMOVE", <<v>>)
    /\ msg' = ""
    /\ scen' = -1
    /\ last_add' = << >>
    /\ writes' = <<INVENTORY_SHEET, HISTORY_SHEET>>
    /\ UNCHANGED <<inventory_df, issued_df, current_user, current_role,
                   auth_workbook, page, df_index, inv_tree>>

(***************************************************************************)
(* Accounts: ensure_admin_user, _login, logout, and the Users tab of the   *)
(* Settings page.                                                          *)
(***************************************************************************)
\* self.current_user = None: nobody is logged in.
NoUser == "None"

\* str.lower() on a username.
LowerName(v) ==
    CASE v = "Admin" -> "admin"
      [] v = "ADMIN" -> "admin"
      [] OTHER -> v

\* The rows ensure_admin_user takes for the built-in account.
AdminMask(users) ==
    {i \in 1..Len(users) : LowerName(AsTypeStr(users[i]["Username"])) = "admin"}

\* ensure_admin_user on the two workbooks: the first row of the mask is
\* made an active Admin, its hash replaced when str(hash).strip() is
\* empty; without such a row the built-in account is appended and the
\* event SEED_ADMIN logged.  The Users sheet is saved either way.
ensure_admin_user(auth, data) ==
    LET users == load_sheet(auth, USERS_SHEET)
        mask == AdminMask(users)
        i == CHOOSE k \in mask : \A j \in mask : k <= j
        healed == [users EXCEPT
                      ![i]["Role"] = "Admin",
                      ![i]["Active"] = TRUE,
                      ![i]["PasswordHash"] =
                          IF AsTypeStr(@) = ""
                          THEN hash_pw(DefaultAdminPassword) ELSE @]
    IN  IF mask /= {}
        THEN [auth |-> save_sheet(auth, healed, USERS_SHEET), data |-> data]
        ELSE [auth |-> save_sheet(auth, Append(users, SeedAdmin), USERS_SHEET),
              data |-> append_history(data, "system", "SEED_ADMIN",
                                      <<"Built-in admin created">>)]

\* A selection that takes the deactivated accounts too.
LoginSelectionIgnoringActive(users, u) ==
    {i \in 1..Len(users) : users[i]["Username"] = u}

\* The rows _login selects: the username as typed, and active.
LoginSelection(users, u) ==
    {i \in 1..Len(users) : users[i]["Username"] = u /\ users[i]["Active"]}

\* Whether _login lets (u, p) in: the first selected row decides.
LoginAccepted(users, u, p) ==
    LET sel == LoginSelection(users, u)
    IN  /\ sel /= {}
        /\ check_pw(p, users[CHOOSE k \in sel : \A j \in sel : k <= j][
                           "PasswordHash"])

\* _login with u and p typed, both stripped.
login(u, p, limit) ==
    /\ UNCHANGED <<side_files, other_session>>
    /\ page = "login"
    /\ LET users == load_sheet(auth_workbook, USERS_SHEET)
           sel == LoginSelection(users, u)
           row == users[CHOOSE k \in sel : \A j \in sel : k <= j]
           role == IF row["Role"] \in ROLES THEN row["Role"] ELSE "Viewer"
       IN  IF LoginAccepted(users, u, p)
           THEN /\ Len(workbook[HISTORY_SHEET]) < limit
                /\ current_user' = u
                /\ current_role' = role
                /\ workbook' = append_history(workbook, u, "LOGIN",
                                              <<"Role=", role>>)
                /\ page' = "dashboard"
                /\ msg' = ""
                /\ writes' = <<HISTORY_SHEET>>
                /\ UNCHANGED <<inventory_df, issued_df, auth_workbook,
                               df_index, inv_tree, scen, last_add>>
           ELSE /\ msg' = "Invalid username or password."
                /\ writes' = << >>
                /\ UNCHANGED <<workbook, inventory_df, issued_df,
                               current_user, current_role, auth_workbook,
                               page, df_index, inv_tree, scen, last_add>>

logout(limit) ==
    /\ UNCHANGED <<side_files, other_session>>
    /\ page /= "login"
    /\ Len(workbook[HISTORY_SHEET]) < limit
    /\ LET wb == append_history(workbook, current_user, "LOGOUT", <<>>)
           out == ensure_admin_user(auth_workbook, wb)
       IN  /\ workbook' = out.data
           /\ auth_workbook' = out.auth
           /\ inventory_df' = load_sheet(wb, INVENTORY_SHEET)
           /\ issued_df' = load_sheet(wb, ISSUED_SHEET)
           /\ writes' = IF out.data = wb
                        THEN <<HISTORY_SHEET, USERS_SHEET>>
                        ELSE <<HISTORY_SHEET, HISTORY_SHEET, USERS_SHEET>>
    /\ current_user' = NoUser
    /\ current_role' = "Viewer"
    /\ page' = "login"
    /\ inv_tree' = ClearContent(inv_tree)
    /\ df_index' = None
    /\ msg' = ""
    /\ UNCHANGED <<scen, last_add>>

\* The "Settings" button of the sidebar: the handler returns at once
\* unless the role is Admin.
open_settings ==
    /\ UNCHANGED <<side_files, other_session>>
    /\ page /= "login"
    /\ is_admin
    /\ page' = "settings"
    /\ inv_tree' = ClearContent(inv_tree)
    /\ df_index' = None
    /\ msg' = ""
    /\ writes' = << >>
    /\ UNCHANGED <<workbook, inventory_df, issued_df, current_user,
                   current_role, auth_workbook, scen, last_add>>

\* The Users sheet after save_user and before ensure_admin_user.
SavedUsers(users, un, ro, ac, pw) ==
    LET mask == {i \in 1..Len(users) : users[i]["Username"] = un}
        i == CHOOSE k \in mask : \A j \in mask : k <= j
    IN  IF mask /= {}
        THEN [users EXCEPT ![i]["Role"] = ro,
                           ![i]["Active"] = ac,
                           ![i]["PasswordHash"] =
                               IF pw /= "" THEN hash_pw(pw) ELSE @]
        ELSE Append(users,
                    UserRow(un, hash_pw(IF pw /= "" THEN pw
                                        ELSE "ChangeMe123!"), ro, ac))

\* The "Save User" button of the Users tab, with the username un, role
\* ro, Active box ac and password pw of the form, un and pw stripped.
save_user(un, ro, ac, pw, rows) ==
    /\ UNCHANGED <<side_files, other_session>>
    /\ page = "settings"
    /\ IF un = ""
       THEN /\ msg' = "Username required"
            /\ writes' = << >>
            /\ UNCHANGED <<workbook, auth_workbook>>
       ELSE LET users == SavedUsers(load_sheet(auth_workbook, USERS_SHEET),
                                    un, ro, ac, pw)
                out == ensure_admin_user(
                           save_sheet(auth_workbook, users, USERS_SHEET),
                           workbook)
            IN  /\ Len(users) <= rows
                /\ auth_workbook' = out.auth
                /\ workbook' = out.data
                /\ msg' = "Saved."
                /\ writes' = IF out.data = workbook
                             THEN <<USERS_SHEET, USERS_SHEET>>
                             ELSE <<USERS_SHEET, HISTORY_SHEET, USERS_SHEET>>
    /\ UNCHANGED <<inventory_df, issued_df, current_user, current_role, page,
                   df_index, inv_tree, scen, last_add>>

(***************************************************************************)
(* The Staff page, the General tab of the Settings page, and Export CSV.   *)
(***************************************************************************)
manage_staff ==
    /\ UNCHANGED <<side_files, other_session>>
    /\ page /= "login"
    /\ page' = "staff"
    /\ inv_tree' = ClearContent(inv_tree)
    /\ df_index' = None
    /\ msg' = ""
    /\ writes' = << >>
    /\ UNCHANGED <<workbook, inventory_df, issued_df, current_user,
                   current_role, auth_workbook, scen, last_add>>

\* The "Add/Save" button of the Staff page: the row typed, stripped, is
\* appended to the frame the page loaded.
add_staff(u, d, p, rows) ==
    /\ UNCHANGED <<side_files, other_session>>
    /\ page = "staff"
    /\ IF u = ""
       THEN /\ msg' = "Username required"
            /\ writes' = << >>
            /\ UNCHANGED workbook
       ELSE /\ Len(workbook[STAFF_SHEET]) < rows
            /\ workbook' =
                  save_sheet(workbook,
                             Append(load_sheet(workbook, STAFF_SHEET),
                                    [Username |-> u, Department |-> d,
                                     Position |-> p]),
                             STAFF_SHEET)
            /\ msg' = ""
            /\ writes' = <<STAFF_SHEET>>
    /\ UNCHANGED <<inventory_df, issued_df, current_user, current_role,
                   auth_workbook, page, df_index, inv_tree, scen, last_add>>

\* InventoryApp._set_setting on the loaded Settings frame.
SetSetting(df, key, value) ==
    IF \E i \in 1..Len(df) : df[i]["Key"] = key
    THEN [i \in 1..Len(df) |->
             IF df[i]["Key"] = key THEN [df[i] EXCEPT !["Value"] = value]
             ELSE df[i]]
    ELSE Append(df, SettingRow(key, value))

\* The Save button of the General tab, with the camera index typed and
\* the backup box as ticked: two calls of _set_setting, each saving.
save_general(cam, bkp) ==
    /\ UNCHANGED <<side_files, other_session>>
    /\ page = "settings"
    /\ LET first == save_sheet(
                        auth_workbook,
                        SetSetting(load_sheet(auth_workbook, SETTINGS_SHEET),
                                   "camera_index",
                                   IF cam = "" THEN "0" ELSE cam),
                        SETTINGS_SHEET)
       IN  auth_workbook' =
               save_sheet(first,
                          SetSetting(load_sheet(first, SETTINGS_SHEET),
                                     "backup_enabled",
                                     IF bkp THEN "1" ELSE "0"),
                          SETTINGS_SHEET)
    /\ msg' = "General settings saved."
    /\ writes' = <<SETTINGS_SHEET, SETTINGS_SHEET>>
    /\ UNCHANGED <<workbook, inventory_df, issued_df, current_user,
                   current_role, page, df_index, inv_tree, scen, last_add>>

\* The "Export CSV" button: self.inventory_df is written to the file
\* chosen; no sheet and no frame changes.
export_csv ==
    /\ UNCHANGED <<side_files, other_session>>
    /\ page /= "login"
    /\ msg' = "Exported"
    /\ writes' = << >>
    /\ UNCHANGED <<workbook, inventory_df, issued_df, current_user,
                   current_role, auth_workbook, page, df_index, inv_tree,
                   scen, last_add>>

(***************************************************************************)
(* Saves that raise.  save_sheet opens the backing file for writing and    *)
(* pandas raises when it cannot (the file locked by another program, the   *)
(* disk full).  A handler whose k-th save_sheet call raises has changed    *)
(* its frames in memory and persisted the saves before the k-th; the rest  *)
(* of the handler, its later saves among it, is skipped.                   *)
(***************************************************************************)
\* The text of the exception of a save that raises.
SaveError == "Permission denied"

\* The frame append_history saves.
HistoryWith(wb, user, action, details) ==
    Append(load_sheet(wb, HISTORY_SHEET), HistoryEvent(user, action, details))

\* The workbook after the first n of the saves, each a <<sheet, frame>>.
RECURSIVE SavedUpTo(_, _, _)
SavedUpTo(wb, saves, n) ==
    IF n = 0 THEN wb
    ELSE save_sheet(SavedUpTo(wb, saves, n - 1), saves[n][2], saves[n][1])

\* The state a handler leaves when the k-th of its saves raises, df and
\* iss being its frames at that point: the exception ends the handler,
\* inside the try of save_item or in the Tk callback wrapper.
SaveRaises(saves, k, df, iss) ==
    /\ k \in 1..Len(saves)
    /\ Len(workbook[HISTORY_SHEET]) < MaxHist
    /\ Len(df) <= MaxRows
    /\ Len(iss) <= MaxRows
    /\ workbook' = SavedUpTo(workbook, saves, k - 1)
    /\ writes' = [j \in 1..(k - 1) |-> saves[j][1]]
    /\ inventory_df' = df
    /\ issued_df' = iss
    /\ msg' = SaveError
    /\ scen' = -1
    /\ last_add' = << >>
    /\ UNCHANGED <<current_user, current_role, auth_workbook, page, df_index,
                   inv_tree>>

\* save_item with its k-th save raising: the History save of
\* append_history is the first, the Inventory save the second.
save_item_raising(form, k) ==
    /\ UNCHANGED <<side_files, other_session>>
    /\ page \in {"add_item_form", "edit_item_form"}
    /\ LET new_row == ParseForm(form)
           sn == new_row["Serial Number"]
           bc == new_row["Barcode"]
           ix == find_item_index(inventory_df, sn, bc)
           df == IF page = "add_item_form"
                 THEN AddedInventory(inventory_df, new_row)
                 ELSE EditedInventory(inventory_df, df_index, new_row)
           action == IF page = "add_item_form" /\ ix = None
                     THEN "ADD" ELSE "EDIT"
           details == IF page = "edit_item_form"
                      THEN <<"idx=", ToString(df_index - 1)>>
                      ELSE IF ix /= None
                      THEN <<"Merge add SN:", sn, "BC:", bc>>
                      ELSE <<"SN:", sn, "BC:", bc>>
       IN  /\ ~MissingIdentity(new_row)
           /\ Len(df) <= MaxRows
           /\ \A i \in 1..Len(df) : df[i]["Quantity"] <= MaxQty
           /\ SaveRaises(<< <<HISTORY_SHEET,
                               HistoryWith(workbook, current_user, action,
                                           details)>>,
                             <<INVENTORY_SHEET, df>> >>,
                          k, df, issued_df)

\* delete_item with its k-th save raising: Inventory, then History.
delete_item_raising(idx, k) ==
    /\ UNCHANGED <<side_files, other_session>>
    /\ page = "inventory"
    /\ idx \in 1..Len(inventory_df)
    /\ LET sn == inventory_df[idx]["Serial Number"]
           df == DropRow(inventory_df, idx)
       IN  SaveRaises(<< <<INVENTORY_SHEET, df>>,
                         <<HISTORY_SHEET,
                           HistoryWith(workbook, current_user, "DELETE",
                                       <<"SN:", sn>>)>> >>,
                      k, df, issued_df)

\* do_issue with its k-th save raising: Inventory, Issued, then History.
do_issue_raising(code, staff, k) ==
    /\ UNCHANGED <<side_files, other_session>>
    /\ page = "issue_item_form"
    /\ IssueRefusal(inventory_df, current_role, code, staff) = ""
    /\ LET ix == find_item_index(inventory_df, code, code)
           r == inventory_df[ix]
           df == [inventory_df EXCEPT ![ix]["Available"] = "No"]
           iss == Append(issued_df,
                         IssuedRecord(r, staff, StaffField(staff, "Department"),
                                      StaffField(staff, "Position")))
       IN  SaveRaises(<< <<INVENTORY_SHEET, df>>, <<ISSUED_SHEET, iss>>,
                         <<HISTORY_SHEET,
                           HistoryWith(workbook, current_user, "ISSUE",
                                       <<SerialOrBarcode(r), "->", staff>>)>> >>,
                      k, df, iss)

\* do_return with its k-th save raising: Inventory, Issued, then History.
do_return_raising(code, k) ==
    /\ UNCHANGED <<side_files, other_session>>
    /\ page = "return_item"
    /\ IssuedIndex(issued_df, code) /= None
    /\ LET ix == IssuedIndex(issued_df, code)
           rec == issued_df[ix]
           df == ReturnedInventory(inventory_df, rec)
           iss == DropRow(issued_df, ix)
       IN  SaveRaises(<< <<INVENTORY_SHEET, df>>, <<ISSUED_SHEET, iss>>,
                         <<HISTORY_SHEET,
                           HistoryWith(workbook, current_user, "RETURN",
                                       <<SerialOrBarcode(rec)>>)>> >>,
                      k, df, iss)

(***************************************************************************)
(* The store: the two backing files and the files beside them, one call    *)
(* of save_sheet or load_sheet per step.  workbook is the content of       *)
(* Nkhokwe.xlsx and auth_workbook that of Nkhokwe_Auth.xlsx.  The page     *)
(* handlers above run with every file intact and, as BackupEnabled shows   *)
(* for the settings they start from, with the backup switch read as off,   *)
(* which is why they leave side_files alone.                               *)
(***************************************************************************)
DATA_FILE == "Nkhokwe.xlsx"
AUTH_FILE == "Nkhokwe_Auth.xlsx"

DATA_SPEC == {INVENTORY_SHEET, ISSUED_SHEET, HISTORY_SHEET, STAFF_SHEET}
AUTH_SPEC == {USERS_SHEET, SETTINGS_SHEET}

get_file_for_sheet(sheet) ==
    IF sheet \in AUTH_SPEC THEN AUTH_FILE ELSE DATA_FILE

\* The content of a file that pd.ExcelFile cannot open: no sheet of the
\* program can be read from it.
CorruptFile == [s \in {"<not a workbook>"} |-> << >>]

IsCorrupt(f) == f = CorruptFile

\* _create_workbook: every sheet of the spec without rows, and for the
\* auth file the seeded account and settings.
create_workbook(file) ==
    IF file = AUTH_FILE THEN NewAuthWorkbook
    ELSE [s \in DATA_SPEC |-> << >>]

\* A file beside the workbooks: f"{root}_{kind}_{ts}{ext}" and what it
\* holds.
SideFile(file, kind, ts, content) ==
    [file |-> file, kind |-> kind, ts |-> ts, content |-> content]

\* shutil.copy2 and shutil.move onto a name: a file of that name is
\* replaced.
PutFile(side, f) ==
    {g \in side : ~(g.file = f.file /\ g.kind = f.kind /\ g.ts = f.ts)}
        \cup {f}

\* A repair that recreates the file without moving the old one aside.
add_missing_sheets_dropping(f, file, side, ts) ==
    IF IsCorrupt(f)
    THEN [f |-> create_workbook(file), side |-> side]
    ELSE [f |-> [s \in DOMAIN f \cup DOMAIN create_workbook(file) |->
                    IF s \in DOMAIN f THEN f[s] ELSE << >>],
          side |-> side]

\* _add_missing_sheets on the file with content f at second ts: a file
\* that cannot be opened is moved to the _corrupt_ name and created
\* anew; a file that can gets the sheets it lacks, without rows.
add_missing_sheets(f, file, side, ts) ==
    IF IsCorrupt(f)
    THEN [f |-> create_workbook(file),
          side |-> PutFile(side, SideFile(file, "corrupt", ts, f))]
    ELSE [f |-> [s \in DOMAIN f \cup DOMAIN create_workbook(file) |->
                    IF s \in DOMAIN f THEN f[s] ELSE << >>],
          side |-> side]

\* ensure_workbooks_exist at second ts: the data file, then the auth
\* file.
ensure_workbooks_exist(data, auth, side, ts) ==
    LET d == add_missing_sheets(data, DATA_FILE, side, ts)
        a == add_missing_sheets(auth, AUTH_FILE, d.side, ts)
    IN  [data |-> d.f, auth |-> a.f, side |-> a.side]

\* The texts pd.read_excel takes for numbers.
NumericText == {"0", "1"}

\* str() of the Value cell of row i as pd.read_excel returns the column
\* (settings_to_dict): an empty cell is NaN and gives ""; a column whose
\* filled cells all read as numbers is a number column, of floats when
\* it has an empty cell, so that "1" comes back as "1.0"; any other
\* column keeps its texts.
ValueAsRead(rows, i) ==
    LET vals == {rows[j]["Value"] : j \in 1..Len(rows)}
        v == rows[i]["Value"]
    IN  IF v = "" THEN ""
        ELSE IF "" \in vals /\ \A w \in vals : w = "" \/ w \in NumericText
        THEN v \o ".0"
        ELSE v

\* settings_to_dict(sdf).get(key, default): the last row of the key.
SettingAsRead(rows, key, default) ==
    LET hits == {i \in 1..Len(rows) : rows[i]["Key"] = key}
    IN  IF hits = {} THEN default
        ELSE ValueAsRead(rows, CHOOSE i \in hits : \A j \in hits : j <= i)

\* A switch that is on whatever the Settings sheet holds.
BackupAlwaysEnabled(auth, readable) == TRUE

\* Whether _backup_file_if_enabled goes on to copy: it returns early only
\* when the Settings sheet could be read and gives backup_enabled a
\* value other than "1".
BackupEnabled(auth, readable) ==
    ~readable \/ SettingAsRead(auth[SETTINGS_SHEET], "backup_enabled", "1") = "1"

\* _backup_file_if_enabled(target_file) at second ts, f being the content
\* of the target file.
backup_file_if_enabled(auth, readable, file, f, side, ts) ==
    IF BackupEnabled(auth, readable)
    THEN PutFile(side, SideFile(file, "backup", ts, f))
    ELSE side

\* The seconds of the clock, and the ones datetime.now() can give once
\* the files of side exist.
Clock == 1..MaxClock

NotBefore(side, ts) == \A g \in side : g.ts <= ts

\* The two workbooks and the side files after save_sheet(df, sheet) at
\* second ts; readable tells whether the read of the Settings sheet in
\* _backup_file_if_enabled succeeds.
SheetSaved(data, auth, side, sheet, df, ts, readable) ==
    LET e == ensure_workbooks_exist(data, auth, side, ts)
        file == get_file_for_sheet(sheet)
        f == IF file = AUTH_FILE THEN e.auth ELSE e.data
        written == save_sheet(f, df, sheet)
    IN  [data |-> IF file = DATA_FILE THEN written ELSE e.data,
         auth |-> IF file = AUTH_FILE THEN written ELSE e.auth,
         side |-> backup_file_if_enabled(e.auth, readable, file, f,
                                         e.side, ts)]

\* One call of save_sheet.
save_sheet_call(sheet, df, ts, readable) ==
    /\ NotBefore(side_files, ts)
    /\ LET out == SheetSaved(workbook, auth_workbook, side_files, sheet, df,
                             ts, readable)
       IN  /\ workbook' = out.data
           /\ auth_workbook' = out.auth
           /\ side_files' = out.side
    /\ writes' = <<sheet>>
    /\ UNCHANGED <<inventory_df, issued_df, current_user, current_role, page,
                   df_index, inv_tree, msg, scen, last_add, other_session>>

\* One call of load_sheet: ensure_workbooks_exist, then the read.  The
\* frame it returns is load_sheet of the file it leaves.
load_sheet_call(sheet, ts) ==
    /\ NotBefore(side_files, ts)
    /\ LET out == ensure_workbooks_exist(workbook, auth_workbook, side_files,
                                         ts)
       IN  /\ workbook' = out.data
           /\ auth_workbook' = out.auth
           /\ side_files' = out.side
    /\ writes' = << >>
    /\ UNCHANGED <<inventory_df, issued_df, current_user, current_role, page,
                   df_index, inv_tree, msg, scen, last_add, other_session>>

\* Outside the program, a backing file is damaged.
corrupt_file(file) ==
    /\ Cardinality({g \in side_files : g.kind = "corrupt"}) < MaxCorrupt
    /\ IF file = DATA_FILE
       THEN /\ ~IsCorrupt(workbook)
            /\ workbook' = CorruptFile
            /\ UNCHANGED auth_workbook
       ELSE /\ ~IsCorrupt(auth_workbook)
            /\ auth_workbook' = CorruptFile
            /\ UNCHANGED workbook
    /\ writes' = << >>
    /\ UNCHANGED <<inventory_df, issued_df, current_user, current_role, page,
                   df_index, inv_tree, msg, scen, last_add, side_files,
                   other_session>>

(***************************************************************************)
(* Two processes on one data/ directory.  Each InventoryApp keeps its own  *)
(* frames and its own page; the files are shared, and nothing in the       *)
(* source takes a lock on them.  The variables of the session hold the     *)
(* process whose handler runs next, other_session the process that waits;  *)
(* a handler runs to its end before the other process runs one.            *)
(***************************************************************************)
\* The attributes of the InventoryApp the session variables hold.
ThisSession ==
    [inventory_df |-> inventory_df, issued_df |-> issued_df,
     current_user |-> current_user, current_role |-> current_role,
     page |-> page, df_index |-> df_index, inv_tree |-> inv_tree]

\* An InventoryApp constructed on the files wb, with the built-in account
\* logged in: __init__ loads the frames, the login shows the dashboard.
LoggedInSession(wb) ==
    [inventory_df |-> load_sheet(wb, INVENTORY_SHEET),
     issued_df |-> load_sheet(wb, ISSUED_SHEET),
     current_user |-> "admin", current_role |-> "Admin",
     page |-> "dashboard", df_index |-> None, inv_tree |-> "unset"]

\* The other process is the one to run its next handler.
switch_session ==
    /\ other_session /= << >>
    /\ other_session' = <<ThisSession>>
    /\ inventory_df' = other_session[1].inventory_df
    /\ issued_df' = other_session[1].issued_df
    /\ current_user' = other_session[1].current_user
    /\ current_role' = other_session[1].current_role
    /\ page' = other_session[1].page
    /\ df_index' = other_session[1].df_index
    /\ inv_tree' = other_session[1].inv_tree
    /\ msg' = ""
    /\ writes' = << >>
    /\ UNCHANGED <<workbook, auth_workbook, side_files, scen, last_add>>


(***************************************************************************)
(* Inputs.                                                                 *)
(***************************************************************************)
\* The codes typed into the issue and the return form.
ScanCodes == {"", "SN1", "BC1", "nan"}

\* The serial number and barcode typed into an item form: neither, one
\* of them, both, and a serial number that is another item's barcode.
Identities ==
    { <<"", "">>, <<"SN1", "">>, <<"", "BC1">>, <<"SN1", "BC1">>,
      <<"BC1", "">> }

\* The quantity and unit price typed into an item form of Spec.
Amounts == { <<"5", "10">>, <<"3", "">> }

\* The item forms of the specification Spec.
Forms ==
    { [BlankForm EXCEPT !["Serial Number"] = id[1], !["Barcode"] = id[2],
                        !["Quantity"] = a[1], !["Unit Price"] = a[2]] :
        id \in Identities, a \in Amounts }

\* The ways the other entries of a form are filled in SpecAdd.
Profiles ==
    { [pn |-> "", cat |-> "", loc |-> "", up |-> "", lst |-> "", av |-> ""],
      [pn |-> "P1", cat |-> "C1", loc |-> "L1", up |-> "10", lst |-> "2",
       av |-> ""],
      [pn |-> "P2", cat |-> "C2", loc |-> "L2", up |-> "20", lst |-> "4",
       av |-> "No"] }

\* The lines typed into the batch return form, blank lines dropped.
BatchCodes ==
    { <<c>> : c \in ScanCodes \ {""} }
        \cup { <<"SN1", "BC1">>, <<"BC1", "SN1">>, <<"SN1", "SN1">> }

\* The item forms of the specification SpecAdd.
AddForms ==
    { InventoryRow(p.pn, p.cat, sn, bc, p.av, p.loc, q, p.up, p.lst) :
        sn \in {"", "SN1"}, bc \in {"", "BC1"}, q \in {"3", "5"},
        p \in Profiles }

\* The item forms of the specification SpecBatch.
BatchForms ==
    { [BlankForm EXCEPT !["Serial Number"] = id[1], !["Barcode"] = id[2],
                        !["Quantity"] = "5", !["Unit Price"] = "10",
                        !["Low Stock Threshold"] = "2"] :
        id \in { <<"SN1", "">>, <<"", "BC1">>, <<"SN1", "BC1">> } }

\* The staff of the batch issue form: the combobox starts on the first
\* name of the Staff sheet, and is empty when the sheet is.
BatchStaff == {"", "alice"}

\* What is typed into the Dept and Position entries of an issue form.
DeptEntries == { <<"", "">>, <<"IT", "Engineer">> }

\* The rows of the files imported: with a serial number, with a barcode
\* and with both, the empty cells read as NaN.
CsvRows ==
    { InventoryRow("", "", id[1], id[2], "", "", q, 10, 2) :
        id \in { <<"SN1", "">>, <<"", "BC1">>, <<"SN1", "BC1">> },
        q \in {3, 5} }
        \cup { InventoryRow("P1", "C1", "SN1", "", "Yes", "L1", 3, 20, 4) }

\* The files imported: one row, or two.
CsvFiles == { <<r>> : r \in CsvRows } \cup { <<r, t>> : r, t \in CsvRows }

\* The item forms of the specification SpecImport.
ImportForms ==
    { [BlankForm EXCEPT !["Serial Number"] = id[1], !["Barcode"] = id[2],
                        !["Quantity"] = "2", !["Unit Price"] = "10"] :
        id \in { <<"SN1", "">>, <<"", "BC1">>, <<"", "BC2">> } }

\* The item forms of the specification SpecEdit: every entry filled, or
\* every entry but the identity left empty, and a form without identity.
EditForms ==
    { InventoryRow(p.pn, p.cat, id[1], id[2], p.av, p.loc, p.q, p.up, p.lst) :
        id \in { <<"SN1", "">>, <<"", "BC1">>, <<"", "">> },
        p \in { [pn |-> "", cat |-> "", loc |-> "", q |-> "", up |-> "",
                 lst |-> "", av |-> ""],
                [pn |-> "P1", cat |-> "C1", loc |-> "L1", q |-> "3",
                 up |-> "10", lst |-> "2", av |-> "No"] } }

\* The names selected in the listbox of the Categories page: "nan" is
\* what the listbox shows for the rows without a category.
CategoryNames == {"C1", "C2", "nan"}

\* The names typed into the dialog of Rename.
NewNames == {"C2"}

\* The item forms of the specification SpecCat.
CatForms ==
    { [BlankForm EXCEPT !["Serial Number"] = id[1], !["Barcode"] = id[2],
                        !["Category"] = cat, !["Quantity"] = "2"] :
        id \in { <<"SN1", "">>, <<"", "BC1">> },
        cat \in {"", "C1"} }

\* What the Users sheet holds when the program starts: the sheet of a new
\* workbook, an empty sheet, the built-in account written with a capital,
\* alone and before a deactivated "admin", the built-in account without
\* a hash, and sheets with a second account, active and not.
PriorUsers ==
    { <<SeedAdmin>>,
      << >>,
      <<UserRow("Admin", hash_pw("pw1"), "Clerk", FALSE)>>,
      <<UserRow("Admin", hash_pw("pw1"), "Admin", TRUE),
        UserRow("admin", hash_pw("pw1"), "Viewer", FALSE)>>,
      <<UserRow("admin", "", "Viewer", FALSE)>>,
      <<SeedAdmin, UserRow("carol", hash_pw("pw1"), "Clerk", TRUE)>>,
      <<SeedAdmin, UserRow("carol", hash_pw("pw1"), "Manager", FALSE)>> }

\* The usernames and passwords typed, stripped.
Usernames == {"admin", "Admin", "carol"}
Passwords == {"Admin@2028", "pw1", "ChangeMe123!"}

\* The accounts of the sessions of SpecRoles: one of each role, as the
\* Users tab saves them.
RoleAccounts ==
    << SeedAdmin,
       UserRow("carol", hash_pw("pw1"), "Clerk", TRUE),
       UserRow("dave", hash_pw("pw1"), "Viewer", TRUE) >>

\* The logins of SpecRoles.
RoleLogins ==
    { <<"admin", DefaultAdminPassword>>, <<"carol", "pw1">>,
      <<"dave", "pw1">>, <<"dave", "pw2">> }

\* The item forms of SpecRoles.
RoleForms ==
    { [BlankForm EXCEPT !["Serial Number"] = "SN1", !["Quantity"] = "2"],
      [BlankForm EXCEPT !["Barcode"] = "BC1", !["Category"] = "C1"] }

\* The files imported in SpecRoles.
RoleFiles == { <<InventoryRow("", "", "SN1", "", "", "", 3, 10, 2)>> }

(***************************************************************************)
(* Specifications.                                                         *)
(***************************************************************************)
Next ==
    \/ show_inventory
    \/ show_issued
    \/ is_clerk /\ add_item_form
    \/ \E form \in Forms : save_item(form, MaxHist)
    \/ is_admin /\ \E idx \in 1..MaxRows : delete_item(idx)
    \/ is_clerk /\ issue_item_form
    \/ \E code \in ScanCodes, staff \in StaffChoices : do_issue(code, staff)
    \/ is_clerk /\ return_item
    \/ \E code \in ScanCodes : do_return(code)
    \/ is_clerk /\ batch_return
    \/ \E codes \in BatchCodes : batch_return_process(codes)

Spec == Init /\ [][Next]_vars

\* The add and the edit form alone, with every entry of the form in play.
NextAdd ==
    \/ show_inventory
    \/ is_clerk /\ add_item_form
    \/ is_admin /\ \E idx \in 1..MaxRows : edit_item_form(idx)
    \/ \E form \in AddForms : save_item(form, MaxAddOps)

SpecAdd == Init /\ [][NextAdd]_vars

\* Single and batch issue and return side by side.
NextBatch ==
    \/ show_inventory
    \/ show_issued
    \/ is_clerk /\ add_item_form
    \/ \E form \in BatchForms : save_item(form, MaxHist)
    \/ is_admin /\ \E idx \in 1..MaxRows : delete_item(idx)
    \/ is_clerk /\ issue_item_form
    \/ \E code \in ScanCodes, staff \in StaffChoices : do_issue(code, staff)
    \/ is_clerk /\ batch_issue
    \/ \E codes \in BatchCodes, staff \in BatchStaff, e \in DeptEntries :
          batch_issue_process(codes, staff, e[1], e[2], MaxHist)
    \/ is_clerk /\ return_item
    \/ \E code \in ScanCodes : do_return(code)
    \/ is_clerk /\ batch_return
    \/ \E codes \in BatchCodes : batch_return_process(codes)

SpecBatch == Init /\ [][NextBatch]_vars

\* The import of a file, from every page, after adds.
NextImport ==
    \/ show_inventory
    \/ show_issued
    \/ is_clerk /\ add_item_form
    \/ \E form \in ImportForms : save_item(form, MaxImportOps)
    \/ is_clerk /\ \E rows \in CsvFiles : import_csv(rows, MaxImportOps)

SpecImport == Init /\ [][NextImport]_vars

\* The edit form on an inventory of two rows.
NextEdit ==
    \/ show_inventory
    \/ is_clerk /\ add_item_form
    \/ is_admin /\ \E idx \in 1..MaxRows : edit_item_form(idx)
    \/ \E form \in EditForms : save_item(form, MaxEditOps)

SpecEdit == Init /\ [][NextEdit]_vars

\* The Categories page over an inventory with items in and out.
NextCat ==
    \/ show_inventory
    \/ is_clerk /\ add_item_form
    \/ \E form \in CatForms : save_item(form, MaxAddOps)
    \/ is_clerk /\ issue_item_form
    \/ \E code \in {"SN1", "BC1"} : do_issue(code, "alice")
    \/ is_admin /\ manage_categories
    \/ \E old \in CategoryNames, new \in NewNames :
          category_rename(old, new, MaxHist)
    \/ \E v \in CategoryNames : category_remove(v, MaxHist)

SpecCat == Init /\ [][NextCat]_vars

\* The program started on a workbook whose Users sheet is prior: the
\* module runs ensure_workbooks_exist and ensure_admin_user, and __init__
\* loads the frames and shows the login form.
InitWith(prior) ==
    LET out == ensure_admin_user(
                   [NewAuthWorkbook EXCEPT ![USERS_SHEET] = prior],
                   NewDataWorkbook)
    IN  /\ workbook = out.data
        /\ auth_workbook = out.auth
        /\ side_files = {}
        /\ other_session = << >>
        /\ writes = << >>
        /\ inventory_df = << >>
        /\ issued_df = << >>
        /\ current_user = NoUser
        /\ current_role = "Viewer"
        /\ page = "login"
        /\ df_index = None
        /\ inv_tree = "unset"
        /\ msg = ""
        /\ scen = -1
        /\ last_add = << >>

InitUsers == \E prior \in PriorUsers : InitWith(prior)

\* Logging in and out, and the Users tab.
NextUsers ==
    \/ \E u \in Usernames, p \in Passwords : login(u, p, MaxUserOps)
    \/ logout(MaxUserOps)
    \/ open_settings
    \/ \E un \in Usernames \cup {""}, ro \in ROLES, ac \in BOOLEAN,
          pw \in {"", "pw1"} : save_user(un, ro, ac, pw, MaxUsers)

SpecUsers == InitUsers /\ [][NextUsers]_vars

\* Sessions of an Admin, a Clerk and a Viewer: every control of the
\* sidebar and of the pages, enabled as the page renders it for the role.
InitRoles == InitWith(RoleAccounts)

NextRoles ==
    \/ \E l \in RoleLogins : login(l[1], l[2], MaxHist)
    \/ logout(MaxHist)
    \/ show_inventory
    \/ show_issued
    \/ is_clerk /\ add_item_form
    \/ is_admin /\ \E idx \in 1..MaxRows : edit_item_form(idx)
    \/ \E form \in RoleForms : save_item(form, MaxHist)
    \/ is_admin /\ \E idx \in 1..MaxRows : delete_item(idx)
    \/ is_clerk /\ issue_item_form
    \/ \E code \in {"SN1"} : do_issue(code, "alice")
    \/ is_clerk /\ batch_issue
    \/ \E codes \in { <<"BC1">> } :
          batch_issue_process(codes, "alice", "", "", MaxHist)
    \/ is_clerk /\ return_item
    \/ \E code \in {"SN1"} : do_return(code)
    \/ is_clerk /\ batch_return
    \/ \E codes \in { <<"BC1">> } : batch_return_process(codes)
    \/ is_clerk /\ \E rows \in RoleFiles : import_csv(rows, MaxHist)
    \/ is_admin /\ export_csv
    \/ is_admin /\ manage_categories
    \/ category_rename("C1", "C2", MaxHist)
    \/ category_remove("C1", MaxHist)
    \/ is_clerk /\ manage_staff
    \/ add_staff("erin", "IT", "Intern", MaxStaff)
    \/ open_settings
    \/ save_user("carol", "Viewer", FALSE, "", MaxUsers)
    \/ save_general("1", FALSE)

SpecRoles == InitRoles /\ [][NextRoles]_vars

\* The handlers called whatever the role of the session: the control of
\* each is taken for reachable, and only the checks the handlers make
\* themselves stand between the role and the operation.
InvokeLogins ==
    { <<"admin", DefaultAdminPassword>>, <<"carol", "pw1">>, <<"dave", "pw1">> }

NextInvoke ==
    \/ \E l \in InvokeLogins : login(l[1], l[2], MaxHist)
    \/ logout(MaxHist)
    \/ show_inventory
    \/ show_issued
    \/ add_item_form
    \/ \E idx \in 1..MaxRows : edit_item_form(idx)
    \/ \E form \in RoleForms : save_item(form, MaxHist)
    \/ \E idx \in 1..MaxRows : delete_item(idx)
    \/ issue_item_form
    \/ \E code \in {"SN1"} : do_issue(code, "alice")
    \/ batch_issue
    \/ \E codes \in { <<"BC1">> } :
          batch_issue_process(codes, "alice", "", "", MaxHist)
    \/ return_item
    \/ \E code \in {"SN1"} : do_return(code)
    \/ batch_return
    \/ \E codes \in { <<"BC1">> } : batch_return_process(codes)
    \/ \E rows \in RoleFiles : import_csv(rows, MaxHist)
    \/ export_csv
    \/ manage_categories
    \/ category_rename("C1", "C2", MaxHist)
    \/ category_remove("C1", MaxHist)
    \/ manage_staff
    \/ add_staff("erin", "IT", "Intern", MaxStaff)
    \/ open_settings
    \/ save_user("carol", "Viewer", FALSE, "", MaxUsers)
    \/ save_general("1", FALSE)

SpecInvoke == InitRoles /\ [][NextInvoke]_vars

\* The item handlers with saves that may raise: each handler either runs
\* to its end or stops at one of its save_sheet calls.
FailForms ==
    { [BlankForm EXCEPT !["Serial Number"] = "SN1"],
      [BlankForm EXCEPT !["Serial Number"] = "SN1", !["Location"] = "L1"] }

NextFail ==
    \/ show_inventory
    \/ is_clerk /\ add_item_form
    \/ is_admin /\ \E idx \in 1..MaxRows : edit_item_form(idx)
    \/ \E form \in FailForms : save_item(form, MaxHist)
    \/ \E form \in FailForms, k \in 1..2 : save_item_raising(form, k)
    \/ is_admin /\ \E idx \in 1..MaxRows : delete_item(idx)
    \/ is_admin /\ \E idx \in 1..MaxRows, k \in 1..2 :
                      delete_item_raising(idx, k)
    \/ is_clerk /\ issue_item_form
    \/ do_issue("SN1", "alice")
    \/ \E k \in 1..3 : do_issue_raising("SN1", "alice", k)

SpecFail == Init /\ [][NextFail]_vars

\* The Settings sheets the store starts from: as seeded, with the backup
\* box unticked, with the directory entries filled in (box ticked and
\* not), with the camera index alone, and without rows.
DirectorySettings(bkp) ==
    << SettingRow("camera_index", "0"), SettingRow("backup_enabled", bkp),
       SettingRow("ad_server", "dc1"), SettingRow("ad_base_dn", "dc=x"),
       SettingRow("ad_user", "svc") >>

PriorSettings ==
    { SeedSettings,
      SetSetting(SeedSettings, "backup_enabled", "0"),
      DirectorySettings("1"),
      DirectorySettings("0"),
      <<SettingRow("camera_index", "0")>>,
      << >> }

\* The frames saved in the store specification.
StoreFrames(sheet) ==
    IF sheet = INVENTORY_SHEET
    THEN { << >>, <<InventoryRow("nan", "nan", "SN1", "nan", "Yes", "nan", 5, 10, 2)>> }
    ELSE { <<HistoryEvent("admin", "ADD", <<"SN:", "SN1", "BC:", "">>)>> }

InitStore ==
    \E settings \in PriorSettings :
        /\ workbook = NewDataWorkbook
        /\ auth_workbook = [NewAuthWorkbook EXCEPT ![SETTINGS_SHEET] = settings]
        /\ side_files = {}
        /\ other_session = << >>
        /\ writes = << >>
        /\ inventory_df = << >>
        /\ issued_df = << >>
        /\ current_user = "admin"
        /\ current_role = "Admin"
        /\ page = "dashboard"
        /\ df_index = None
        /\ inv_tree = "unset"
        /\ msg = ""
        /\ scen = -1
        /\ last_add = << >>

NextStore ==
    \/ \E sheet \in {INVENTORY_SHEET, HISTORY_SHEET}, ts \in Clock,
          readable \in BOOLEAN :
          \E df \in StoreFrames(sheet) : save_sheet_call(sheet, df, ts, readable)
    \/ \E sheet \in {INVENTORY_SHEET, USERS_SHEET}, ts \in Clock :
          load_sheet_call(sheet, ts)
    \/ \E file \in {DATA_FILE, AUTH_FILE} : corrupt_file(file)

SpecStore == InitStore /\ [][NextStore]_vars

\* Two sessions adding and issuing items on the same files.
TwoForms ==
    { [BlankForm EXCEPT !["Serial Number"] = sn, !["Quantity"] = "1"] :
        sn \in {"SN1", "SN2"} }

InitTwo ==
    /\ workbook = NewDataWorkbook
    /\ auth_workbook = NewAuthWorkbook
    /\ side_files = {}
    /\ other_session = <<LoggedInSession(NewDataWorkbook)>>
    /\ writes = << >>
    /\ inventory_df = << >>
    /\ issued_df = << >>
    /\ current_user = "admin"
    /\ current_role = "Admin"
    /\ page = "dashboard"
    /\ df_index = None
    /\ inv_tree = "unset"
    /\ msg = ""
    /\ scen = -1
    /\ last_add = << >>

NextTwo ==
    \/ switch_session
    \/ show_inventory
    \/ show_issued
    \/ is_clerk /\ add_item_form
    \/ \E form \in TwoForms : save_item(form, MaxHist)
    \/ is_clerk /\ issue_item_form
    \/ \E staff \in {"alice", "bob"} : do_issue("SN1", staff)

SpecTwo == InitTwo /\ [][NextTwo]_vars

\* The Staff page alone, with names the Staff sheet holds and one it does
\* not.
StaffEntries ==
    { <<u, d, p>> : u \in {"", "alice", "erin"}, d \in {"IT", "HR"},
                    p \in {"Engineer", "Intern"} }

NextStaff ==
    \/ show_inventory
    \/ is_clerk /\ manage_staff
    \/ \E e \in StaffEntries : add_staff(e[1], e[2], e[3], MaxStaffRows)

SpecStaff == Init /\ [][NextStaff]_vars

\* An Inventory sheet written outside the program (a workbook of an
\* earlier version, or one edited by hand), then loaded: the Available
\* cells hold any text, or the sheet has no Available column.
RawAvailable == {"Yes", "No", " yes ", "TRUE", "1", "Y", "", "maybe"}

RawRow(i, av) ==
    InventoryRow("", "", IF i = 1 THEN "SN1" ELSE "SN2", "", av, "", 1, 0, 0)

WithoutColumn(row, col) == [c \in DOMAIN row \ {col} |-> row[c]]

RawInventories ==
    UNION { [1..n -> RawAvailable] : n \in 0..MaxRawRows }

RawSheet(avs, hasColumn) ==
    [i \in 1..Len(avs) |->
        IF hasColumn THEN RawRow(i, avs[i])
        ELSE WithoutColumn(RawRow(i, avs[i]), "Available")]

InitLoad ==
    /\ \E avs \in RawInventories, hasColumn \in BOOLEAN :
          workbook = [NewDataWorkbook EXCEPT
                         ![INVENTORY_SHEET] = RawSheet(avs, hasColumn)]
    /\ auth_workbook = NewAuthWorkbook
    /\ side_files = {}
    /\ other_session = << >>
    /\ writes = << >>
    /\ inventory_df = load_sheet(workbook, INVENTORY_SHEET)
    /\ issued_df = << >>
    /\ current_user = "admin"
    /\ current_role = "Admin"
    /\ page = "dashboard"
    /\ df_index = None
    /\ inv_tree = "unset"
    /\ msg = ""
    /\ scen = -1
    /\ last_add = << >>

NextLoad ==
    \/ show_inventory
    \/ is_clerk /\ add_item_form
    \/ is_admin /\ \E idx \in 1..MaxRawRows : delete_item(idx)

SpecLoad == InitLoad /\ [][NextLoad]_vars

\* Adds, issues and returns of items known by their serial number alone,
\* with no delete: a row keeps its place and its serial number, and an
\* Issued record with that serial number is a record of that row.
SerialForms ==
    { [BlankForm EXCEPT !["Serial Number"] = sn, !["Quantity"] = "1"] :
        sn \in {"SN1", "SN2"} }

SerialCodes == {"SN1", "SN2"}

SerialBatches == { <<"SN1">>, <<"SN1", "SN2">>, <<"SN2", "SN2">> }

NextSerial ==
    \/ show_inventory
    \/ show_issued
    \/ is_clerk /\ add_item_form
    \/ \E form \in SerialForms : save_item(form, MaxHist)
    \/ is_clerk /\ issue_item_form
    \/ \E code \in SerialCodes : do_issue(code, "alice")
    \/ is_clerk /\ batch_issue
    \/ \E codes \in SerialBatches :
          batch_issue_process(codes, "alice", "IT", "Engineer", MaxHist)
    \/ is_clerk /\ return_item
    \/ \E code \in SerialCodes : do_return(code)
    \/ is_clerk /\ batch_return
    \/ \E codes \in SerialBatches : batch_return_process(codes)

SpecSerial == Init /\ [][NextSerial]_vars

\* The Categories page between an issue and the return of the item.
FreshForms ==
    { [BlankForm EXCEPT !["Serial Number"] = "SN1", !["Category"] = "C1",
                        !["Quantity"] = "1"] }

NextFresh ==
    \/ show_inventory
    \/ show_issued
    \/ is_clerk /\ add_item_form
    \/ \E form \in FreshForms : save_item(form, MaxHist)
    \/ is_clerk /\ issue_item_form
    \/ \E staff \in {"alice", "bob"} : do_issue("SN1", staff)
    \/ is_clerk /\ return_item
    \/ do_return("SN1")
    \/ is_admin /\ manage_categories
    \/ \E old \in {"C1", "C2"}, new \in {"C2", "C3"} :
          category_rename(old, new, MaxHist)
    \/ \E v \in {"C1", "C2"} : category_remove(v, MaxHist)

SpecFresh == Init /\ [][NextFresh]_vars

\* Items known by a barcode alone beside an item known by its serial
\* number: adds, deletes, issues and returns.
CodeForms ==
    { [BlankForm EXCEPT !["Serial Number"] = id[1], !["Barcode"] = id[2],
                        !["Quantity"] = "1"] :
        id \in { <<"SN1", "">>, <<"", "BC1">>, <<"", "BC2">>,
                 <<"SN1", "BC2">> } }

NextCodes ==
    \/ show_inventory
    \/ show_issued
    \/ is_clerk /\ add_item_form
    \/ \E form \in CodeForms : save_item(form, MaxHist)
    \/ is_admin /\ \E idx \in 1..MaxRows : delete_item(idx)
    \/ is_clerk /\ issue_item_form
    \/ \E code \in {"SN1", "BC1", "BC2"} : do_issue(code, "alice")
    \/ is_clerk /\ return_item
    \/ \E code \in {"SN1", "BC1", "BC2"} : do_return(code)

SpecCodes == Init /\ [][NextCodes]_vars

\* Issues and returns over an imported inventory in which the code BC1 is
\* the barcode of one item and the serial number of another.
RoundFiles ==
    { << InventoryRow("P1", "C1", "SN1", "BC1", "Yes", "L1", 1, 10, 2) >>,
      << InventoryRow("P1", "C1", "SN1", "BC1", "Yes", "L1", 1, 10, 2),
         InventoryRow("P2", "C1", "BC1", "BC2", "Yes", "L1", 1, 10, 2) >> }

RoundCodes == {"SN1", "BC1", "BC2"}

NextRound ==
    \/ show_inventory
    \/ show_issued
    \/ is_clerk /\ \E rows \in RoundFiles : import_csv(rows, MaxHist)
    \/ is_clerk /\ issue_item_form
    \/ \E code \in RoundCodes, staff \in {"alice", "bob"} :
          do_issue(code, staff)
    \/ is_clerk /\ return_item
    \/ \E code \in RoundCodes : do_return(code)

SpecRound == Init /\ [][NextRound]_vars

\* Returns with an empty code while an item without a serial number is
\* out: added on the form or imported, issued by its barcode.
EmptyForms == { [BlankForm EXCEPT !["Barcode"] = "BC1", !["Quantity"] = "1"] }

EmptyFiles == { << InventoryRow("", "", "", "BC1", "Yes", "", 1, 10, 2) >> }

EmptyLines == { <<"">>, <<"", "BC1">> }

NextEmpty ==
    \/ show_inventory
    \/ show_issued
    \/ is_clerk /\ add_item_form
    \/ \E form \in EmptyForms : save_item(form, MaxHist)
    \/ is_clerk /\ \E rows \in EmptyFiles : import_csv(rows, MaxHist)
    \/ is_clerk /\ issue_item_form
    \/ do_issue("BC1", "alice")
    \/ is_clerk /\ return_item
    \/ do_return("")
    \/ is_clerk /\ batch_return
    \/ \E lines \in EmptyLines : batch_return_process(lines)

SpecEmpty == Init /\ [][NextEmpty]_vars

\* Issue and return of one item with saves that may raise.
AtomicForms == { [BlankForm EXCEPT !["Serial Number"] = "SN1"] }

NextAtomic ==
    \/ show_inventory
    \/ show_issued
    \/ is_clerk /\ add_item_form
    \/ \E form \in AtomicForms : save_item(form, MaxHist)
    \/ is_clerk /\ issue_item_form
    \/ do_issue("SN1", "alice")
    \/ \E k \in 1..3 : do_issue_raising("SN1", "alice", k)
    \/ is_clerk /\ return_item
    \/ do_return("SN1")
    \/ \E k \in 1..3 : do_return_raising("SN1", k)

SpecAtomic == Init /\ [][NextAtomic]_vars

(***************************************************************************)
(* Properties.                                                             *)
(***************************************************************************)
History == workbook[HISTORY_SHEET]

LastEvent == History[Len(History)]

\* The least element of a non-empty set of row indices.
FirstOf(S) == CHOOSE i \in S : \A j \in S : i <= j

\* The identity rule as the handlers rely on it: the first row with the
\* serial number when the serial number is given and some row has it;
\* failing that, the first row with the barcode when the barcode is given.
IdentityRule(df, serial, barcode) ==
    LET bySerial == {i \in 1..Len(df) : df[i]["Serial Number"] = serial}
        byBarcode == {i \in 1..Len(df) : df[i]["Barcode"] = barcode}
    IN  IF serial /= "" /\ bySerial /= {} THEN FirstOf(bySerial)
        ELSE IF barcode /= "" /\ byBarcode /= {} THEN FirstOf(byBarcode)
        ELSE None

\* df without its row ix, said row by row.
IsWithoutRow(after, df, ix) ==
    /\ Len(after) = Len(df) - 1
    /\ \A j \in 1..Len(after) : after[j] = IF j < ix THEN df[j] ELSE df[j + 1]

\* after is df with one row added at the end.
IsExtension(after, df) ==
    /\ Len(after) = Len(df) + 1
    /\ \A j \in 1..Len(df) : after[j] = df[j]

\* The step appended exactly one History event, of the given action.
OneEventAppended(action) ==
    /\ IsExtension(History', History)
    /\ History'[Len(History')]["Action"] = action

\* The Issued records that identify row i of the inventory inv.
RecordsOf(inv, iss, i) ==
    {j \in 1..Len(iss) :
        IdentityRule(inv, iss[j]["Serial Number"], iss[j]["Barcode"]) = i}

\* C1: in the persisted store, every Inventory row has Available = "No" if
\* and only if exactly one Issued record identifies it, and a row with
\* Available = "Yes" has no such record.
C1_AvailableIffOneIssuedRecord ==
    LET inv == load_sheet(workbook, INVENTORY_SHEET)
        iss == load_sheet(workbook, ISSUED_SHEET)
    IN  \A i \in 1..Len(inv) :
            /\ inv[i]["Available"] = "No"
                  <=> Cardinality(RecordsOf(inv, iss, i)) = 1
            /\ inv[i]["Available"] = "Yes" => RecordsOf(inv, iss, i) = {}

\* The rows of df whose serial number is sn.
RowsWithSerial(df, sn) == {i \in 1..Len(df) : df[i]["Serial Number"] = sn}

\* What the SN1 scenario has made of the frames inv and iss after scen of
\* its operations.
C2_ScenarioIn(inv, iss) ==
    /\ scen \in {2, 3, 4} =>
          /\ Cardinality(RowsWithSerial(inv, "SN1")) = 1
          /\ \A i \in RowsWithSerial(inv, "SN1") : inv[i]["Quantity"] = 8
    /\ scen = 3 =>
          /\ \A i \in RowsWithSerial(inv, "SN1") : inv[i]["Available"] = "No"
          /\ Cardinality(RowsWithSerial(iss, "SN1")) = 1
          /\ \A j \in RowsWithSerial(iss, "SN1") : iss[j]["Issued To"] = "alice"
    /\ scen = 4 =>
          /\ \A i \in RowsWithSerial(inv, "SN1") : inv[i]["Available"] = "Yes"
          /\ iss = << >>

\* C2: from the empty inventory, add SN1 (quantity 5, price 10.0) and add
\* SN1 (quantity 3) leave one row for SN1 with Quantity 8; issuing SN1 to
\* alice makes the row unavailable with one Issued record SN1 -> alice;
\* returning SN1 makes it available again and leaves Issued empty.  Said
\* of the frames in memory and of the sheets persisted.
C2_Scenario ==
    /\ C2_ScenarioIn(inventory_df, issued_df)
    /\ C2_ScenarioIn(workbook[INVENTORY_SHEET], workbook[ISSUED_SHEET])

\* The whole scenario has been run: SN1 is back, eight of it, and nothing
\* is out.
C2_ScenarioDone ==
    /\ scen = 4
    /\ msg = "Returned"
    /\ Len(inventory_df) = 1
    /\ inventory_df[1]["Quantity"] = 8
    /\ inventory_df[1]["Available"] = "Yes"
    /\ issued_df = << >>

\* The serial numbers and barcodes a lookup is asked for.
LookupCodes == {"", "SN1", "BC1", "nan"}

\* The lookup as C10 words it: the barcode is consulted only when the
\* serial number is empty.
C10_ClaimedLookup(df, serial, barcode) ==
    LET bySerial == {i \in 1..Len(df) : df[i]["Serial Number"] = serial}
        byBarcode == {i \in 1..Len(df) : df[i]["Barcode"] = barcode}
    IN  IF serial /= ""
        THEN IF bySerial /= {} THEN FirstOf(bySerial) ELSE None
        ELSE IF barcode /= "" /\ byBarcode /= {} THEN FirstOf(byBarcode)
        ELSE None

\* C10 as claimed: _find_item_index returns the first row with the serial
\* number when the serial number is non-empty, else the first row with the
\* barcode when the barcode is non-empty, else nothing.
C10_LookupAsClaimed ==
    \A serial \in LookupCodes, barcode \in LookupCodes :
        find_item_index(inventory_df, serial, barcode)
            = C10_ClaimedLookup(inventory_df, serial, barcode)

\* C10 as amended: _find_item_index returns the first row with the serial
\* number when the serial number is non-empty and some row has it;
\* otherwise the first row with the barcode when the barcode is non-empty;
\* otherwise nothing.
C10_LookupFallsBackToBarcode ==
    \A serial \in LookupCodes, barcode \in LookupCodes :
        find_item_index(inventory_df, serial, barcode)
            = IdentityRule(inventory_df, serial, barcode)

\* An item that only its barcode finds has been issued: no row has BC1 for
\* a serial number, one has it for a barcode, and it is out.
C10_IssuedByBarcode ==
    /\ RowsWithSerial(inventory_df, "BC1") = {}
    /\ \E i \in 1..Len(inventory_df) :
          /\ inventory_df[i]["Barcode"] = "BC1"
          /\ inventory_df[i]["Available"] = "No"
          /\ find_item_index(inventory_df, "BC1", "BC1") = i
    /\ Len(History) > 0
    /\ LastEvent["Action"] = "ISSUE"

\* The sheets of the store, in memory and persisted.
Sheets == <<workbook, inventory_df, issued_df>>

\* What makes a single issue of code to staff fail, as C3 lists it: no
\* inventory row matches the code, the matched row is not available, or
\* no staff is selected.
C3_MustFail(code, staff) ==
    LET ix == IdentityRule(inventory_df, code, code)
    IN  \/ ix = None
        \/ ~(StripLower(inventory_df[ix]["Available"])
                \in {"yes", "true", "1", "y", "t"})
        \/ staff = ""

\* C3: a single issue that must fail leaves the Inventory, Issued and
\* History sheets unchanged, in memory and persisted, and reports the
\* failure.
C3_FailedIssueChangesNothing ==
    [][\A code \in ScanCodes, staff \in StaffChoices :
          (do_issue(code, staff) /\ C3_MustFail(code, staff))
              => /\ UNCHANGED Sheets
                 /\ msg' \in {"Not found", "Item already issued.",
                              "Select staff."}]_vars

\* An issue of an item that is out has just been refused.
C3_IssueRefused ==
    /\ page = "issue_item_form"
    /\ msg = "Item already issued."
    /\ \E i \in 1..Len(inventory_df) : inventory_df[i]["Available"] = "No"
    /\ Len(issued_df) > 0

\* C4: a successful single issue of code c sets Available = "No" on
\* exactly the row the identity rule resolves for (c, c), appends one
\* Issued record copying the row's Product Name, Category, Serial Number
\* and Barcode with the selected staff, and appends one ISSUE event; no
\* other row and no existing record changes.
C4_IssueEffect ==
    [][\A code \in ScanCodes, staff \in StaffChoices :
          (do_issue(code, staff) /\ ~C3_MustFail(code, staff) /\ is_clerk)
              => LET ix == IdentityRule(inventory_df, code, code)
                     rec == issued_df'[Len(issued_df')]
                 IN  /\ Len(inventory_df') = Len(inventory_df)
                     /\ \A i \in 1..Len(inventory_df) :
                           inventory_df'[i] =
                               IF i = ix
                               THEN [inventory_df[i] EXCEPT !["Available"] = "No"]
                               ELSE inventory_df[i]
                     /\ IsExtension(issued_df', issued_df)
                     /\ \A c \in {"Product Name", "Category", "Serial Number",
                                  "Barcode"} : rec[c] = inventory_df[ix][c]
                     /\ rec["Issued To"] = staff
                     /\ workbook'[INVENTORY_SHEET] = inventory_df'
                     /\ workbook'[ISSUED_SHEET] = issued_df'
                     /\ OneEventAppended("ISSUE")]_vars

\* An item has just been issued by its barcode while another row was in
\* stock.
C4_Issued ==
    /\ Len(History) > 0
    /\ LastEvent["Action"] = "ISSUE"
    /\ Len(inventory_df) = 2
    /\ Len(issued_df) = 1
    /\ issued_df[1]["Barcode"] = "BC1"
    /\ \E i, j \in 1..2 :
          /\ inventory_df[i]["Available"] = "No"
          /\ inventory_df[i]["Barcode"] = "BC1"
          /\ inventory_df[j]["Available"] = "Yes"

\* The Issued records of iss that code names, by serial number or barcode.
RecordsNamed(iss, code) ==
    {j \in 1..Len(iss) :
        iss[j]["Serial Number"] = code \/ iss[j]["Barcode"] = code}

\* The inventory row the k-th Issued record identifies.
RowOfRecord(k) ==
    IdentityRule(inventory_df, issued_df[k]["Serial Number"],
                 issued_df[k]["Barcode"])

\* The k-th Issued record has left the sheet, in memory and persisted.
RecordRemoved(k) ==
    /\ IsWithoutRow(workbook'[ISSUED_SHEET], issued_df, k)
    /\ IsWithoutRow(issued_df', load_sheet(workbook, ISSUED_SHEET), k)

\* C5: a single return of code c takes the first Issued record whose
\* Serial Number or Barcode equals c.  With no such record the return
\* fails and changes no sheet; otherwise, when an inventory row matches
\* the record's identity, that row's Available becomes "Yes", exactly
\* that record is removed and one RETURN event is appended.
C5_ReturnEffect ==
    [][\A code \in ScanCodes :
          do_return(code) =>
              IF RecordsNamed(issued_df, code) = {}
              THEN UNCHANGED Sheets /\ msg' = "Not found"
              ELSE LET k == FirstOf(RecordsNamed(issued_df, code))
                       ix == RowOfRecord(k)
                   IN  ix /= None =>
                          /\ workbook'[INVENTORY_SHEET] =
                                [inventory_df EXCEPT ![ix]["Available"] = "Yes"]
                          /\ inventory_df' = workbook'[INVENTORY_SHEET]
                          /\ RecordRemoved(k)
                          /\ OneEventAppended("RETURN")]_vars

\* An item that was out has just come back to its row, which kept its
\* quantity.
C5_ReturnedToRow ==
    /\ msg = "Returned"
    /\ LastEvent["Action"] = "RETURN"
    /\ Len(inventory_df) = 1
    /\ inventory_df[1]["Quantity"] > 1
    /\ inventory_df[1]["Available"] = "Yes"
    /\ issued_df = << >>

\* The row a return makes up for Issued record rec.
C6_MadeUpFrom(row, rec) ==
    /\ \A c \in {"Product Name", "Category", "Serial Number", "Barcode"} :
          row[c] = rec[c]
    /\ row["Quantity"] = 1
    /\ row["Unit Price"] = 0
    /\ row["Low Stock Threshold"] = 0
    /\ row["Available"] = "Yes"
    /\ row["Location"] = ""

\* The first code of a batch that names an Issued record, or None.
FirstNaming(codes) ==
    IF \E n \in 1..Len(codes) : RecordsNamed(issued_df, codes[n]) /= {}
    THEN FirstOf({n \in 1..Len(codes) : RecordsNamed(issued_df, codes[n]) /= {}})
    ELSE None

\* C6: when the returned record identifies no inventory row, the return
\* appends one row with the record's Product Name, Category, Serial
\* Number and Barcode, Quantity 1, Unit Price 0, Low Stock Threshold 0,
\* Available "Yes" and an empty Location, and removes the record.  Said of
\* the single return, and of the first record a batch return takes.
C6_ReturnOfMissingRow ==
    [][/\ \A code \in ScanCodes :
             (do_return(code) /\ RecordsNamed(issued_df, code) /= {})
                 => LET k == FirstOf(RecordsNamed(issued_df, code))
                        inv == workbook'[INVENTORY_SHEET]
                    IN  RowOfRecord(k) = None =>
                           /\ IsExtension(inv, inventory_df)
                           /\ inventory_df' = inv
                           /\ C6_MadeUpFrom(inv[Len(inv)], issued_df[k])
                           /\ RecordRemoved(k)
       /\ \A codes \in BatchCodes :
             (batch_return_process(codes) /\ FirstNaming(codes) /= None)
                 => LET code == codes[FirstNaming(codes)]
                        k == FirstOf(RecordsNamed(issued_df, code))
                        inv == workbook'[INVENTORY_SHEET]
                        n == Len(inventory_df)
                    IN  RowOfRecord(k) = None =>
                           /\ Len(inv) = n + 1
                           /\ \A i \in 1..n :
                                 \A c \in INVENTORY_COLUMNS \ {"Available"} :
                                    inv[i][c] = inventory_df[i][c]
                           /\ inventory_df' = inv
                           /\ C6_MadeUpFrom(inv[n + 1], issued_df[k])
                           /\ Len(workbook'[ISSUED_SHEET]) < Len(issued_df)
                           /\ Len(codes) = 1 => RecordRemoved(k)]_vars

\* An item deleted while it was out has just been returned: the last
\* events are DELETE and RETURN, and the row is back with quantity 1.
C6_ReturnedAfterDelete ==
    /\ msg = "Returned"
    /\ Len(History) >= 2
    /\ History[Len(History) - 1]["Action"] = "DELETE"
    /\ LastEvent["Action"] = "RETURN"
    /\ Len(inventory_df) > 0
    /\ inventory_df[Len(inventory_df)]["Quantity"] = 1
    /\ inventory_df[Len(inventory_df)]["Location"] = ""

\* The entries of an item form other than the quantity.
OtherEntries == INVENTORY_COLUMNS \ {"Quantity"}

\* The form names the same item as the add that last appended a row.
SecondAddOf(form) ==
    /\ page = "add_item_form"
    /\ last_add /= << >>
    /\ form["Serial Number"] = last_add[1]["Serial Number"]
    /\ form["Barcode"] = last_add[1]["Barcode"]

\* C7: two adds of the same identity with quantities q1 and q2 yield a
\* single row whose Quantity is q1 + q2, whichever quantity comes first,
\* and every other field supplied non-empty in both adds holds the value
\* of the later add.
C7_TwoAddsMerge ==
    [][\A form \in AddForms :
          (save_item(form, MaxAddOps) /\ SecondAddOf(form))
              => LET first == last_add[1]
                     inv == workbook'[INVENTORY_SHEET]
                     row == inv[Len(inv)]
                 IN  /\ Len(inv) = Len(inventory_df)
                     /\ inventory_df' = inv
                     /\ row["Quantity"] = TextToNumber(first["Quantity"])
                                            + TextToNumber(form["Quantity"])
                     /\ row["Quantity"] = TextToNumber(form["Quantity"])
                                            + TextToNumber(first["Quantity"])
                     /\ \A c \in OtherEntries :
                           (first[c] /= "" /\ form[c] /= "")
                               => row[c] = ParseForm(form)[c]]_vars

\* Two adds of SN1, 5 and then 3, the second with every entry filled in
\* anew, have been merged.
C7_Merged ==
    /\ Len(History) = 2
    /\ History[1]["Action"] = "ADD"
    /\ History[2]["Action"] = "EDIT"
    /\ History[2]["Details"][1] = "Merge add SN:"
    /\ Len(inventory_df) = 1
    /\ inventory_df[1]["Quantity"] = 8
    /\ inventory_df[1]["Serial Number"] = "SN1"
    /\ inventory_df[1]["Product Name"] = "P2"
    /\ inventory_df[1]["Unit Price"] = 20

\* C8: in a merge-add, every field other than Quantity whose entry the
\* user left empty keeps the existing row's value.
C8_EmptyEntriesKeepValue ==
    [][\A form \in AddForms :
          (/\ save_item(form, MaxAddOps)
           /\ page = "add_item_form"
           /\ ~(form["Serial Number"] = "" /\ form["Barcode"] = "")
           /\ IdentityRule(inventory_df, form["Serial Number"],
                           form["Barcode"]) /= None)
              => LET ix == IdentityRule(inventory_df, form["Serial Number"],
                                        form["Barcode"])
                 IN  \A c \in OtherEntries :
                        form[c] = "" =>
                            workbook'[INVENTORY_SHEET][ix][c]
                                = inventory_df[ix][c]]_vars

\* C9: an add whose Serial Number and Barcode are both empty is rejected
\* with a validation error: no row is added or modified, nothing is
\* persisted, no History event is appended.
C9_AddWithoutIdentityRejected ==
    [][\A form \in Forms :
          (/\ save_item(form, MaxHist)
           /\ page = "add_item_form"
           /\ form["Serial Number"] = ""
           /\ form["Barcode"] = "")
              => /\ UNCHANGED Sheets
                 /\ msg' = "Enter Serial Number or Barcode."]_vars

\* An add without identity has just been refused on the add form.
C9_Rejected ==
    /\ page = "add_item_form"
    /\ msg = "Enter Serial Number or Barcode."
\* The codes of a batch, as a set.
CodesOf(codes) == {codes[i] : i \in 1..Len(codes)}

\* The inventory rows an issue of these codes targets.
C11_IssueTargets(codes) ==
    {IdentityRule(inventory_df, c, c) : c \in CodesOf(codes)}

\* The inventory rows a return of these codes targets.
C11_ReturnTargets(codes) ==
    {RowOfRecord(k) : k \in UNION {RecordsNamed(issued_df, c) :
                                      c \in CodesOf(codes)}}

\* The step changes, of the Inventory sheet in memory and persisted, at
\* most the Available of the rows in targets.
C11_OnlyAvailableOf(targets) ==
    LET old == load_sheet(workbook, INVENTORY_SHEET)
        new == load_sheet(workbook', INVENTORY_SHEET)
    IN  /\ Len(inventory_df') = Len(inventory_df)
        /\ Len(new) = Len(old)
        /\ \A i \in 1..Len(inventory_df) :
              /\ \A c \in INVENTORY_COLUMNS \ {"Available"} :
                    inventory_df'[i][c] = inventory_df[i][c]
              /\ inventory_df'[i]["Available"] /= inventory_df[i]["Available"]
                    => i \in targets
        /\ \A i \in 1..Len(old) :
              /\ \A c \in NumericColumns : new[i][c] = old[i][c]
              /\ new[i]["Available"] /= old[i]["Available"] => i \in targets

\* C11: issue, batch issue, return of an item whose inventory row exists
\* and batch return of such items never change the Quantity, Unit Price
\* or Low Stock Threshold of any inventory row; they change only the
\* Available flag of the rows they target.
C11_OnlyAvailableChanges ==
    [][/\ \A code \in ScanCodes, staff \in StaffChoices :
             do_issue(code, staff) => C11_OnlyAvailableOf(C11_IssueTargets(<<code>>))
       /\ \A codes \in BatchCodes, staff \in BatchStaff, e \in DeptEntries :
             batch_issue_process(codes, staff, e[1], e[2], MaxHist)
                 => C11_OnlyAvailableOf(C11_IssueTargets(codes))
       /\ \A code \in ScanCodes :
             (do_return(code) /\ ~(None \in C11_ReturnTargets(<<code>>)))
                 => C11_OnlyAvailableOf(C11_ReturnTargets(<<code>>))
       /\ \A codes \in BatchCodes :
             (batch_return_process(codes)
                  /\ ~(None \in C11_ReturnTargets(codes)))
                 => C11_OnlyAvailableOf(C11_ReturnTargets(codes))]_vars

\* A batch has just issued both rows of the inventory, and both kept
\* their quantity, unit price and threshold.
C11_BatchIssuedBoth ==
    /\ Len(History) > 0
    /\ LastEvent["Action"] = "ISSUE_BATCH"
    /\ Len(inventory_df) = 2
    /\ \A i \in 1..2 :
          /\ inventory_df[i]["Available"] = "No"
          /\ inventory_df[i]["Quantity"] = 5
          /\ inventory_df[i]["Unit Price"] = 10
          /\ inventory_df[i]["Low Stock Threshold"] = 2

\* The two sheets in memory and persisted, and a count of successes.
C12_Now ==
    [inventory_df |-> inventory_df, issued_df |-> issued_df,
     inv_sheet |-> workbook[INVENTORY_SHEET],
     iss_sheet |-> workbook[ISSUED_SHEET], count |-> 0]

\* The step leaves the two sheets, in memory and persisted, as st has them.
C12_Leaves(st) ==
    /\ inventory_df' = st.inventory_df
    /\ issued_df' = st.issued_df
    /\ workbook'[INVENTORY_SHEET] = st.inv_sheet
    /\ workbook'[ISSUED_SHEET] = st.iss_sheet

\* What a single issue of code makes of st: nothing when it is refused.
C12_SingleIssue(st, code, staff, dept, pos) ==
    IF IssueRefusal(st.inventory_df, current_role, code, staff) /= ""
    THEN st
    ELSE LET ix == find_item_index(st.inventory_df, code, code)
             df == [st.inventory_df EXCEPT ![ix]["Available"] = "No"]
             iss == Append(st.issued_df,
                           IssuedRecord(st.inventory_df[ix], staff, dept, pos))
         IN  [inventory_df |-> df, issued_df |-> iss, inv_sheet |-> df,
              iss_sheet |-> iss, count |-> st.count + 1]

\* What a single return of code makes of st: nothing when it fails.  The
\* Issued page it ends on reloads the Issued frame.
C12_SingleReturn(st, code) ==
    IF IssuedIndex(st.issued_df, code) = None
    THEN st
    ELSE LET ix == IssuedIndex(st.issued_df, code)
             df == ReturnedInventory(st.inventory_df, st.issued_df[ix])
             iss == DropRow(st.issued_df, ix)
         IN  [inventory_df |-> df,
              issued_df |-> load_sheet(save_sheet(workbook, iss, ISSUED_SHEET),
                                       ISSUED_SHEET),
              inv_sheet |-> df, iss_sheet |-> iss, count |-> st.count + 1]

\* The single issues of the codes, one after the other.
RECURSIVE C12_SingleIssues(_, _, _, _, _)
C12_SingleIssues(st, codes, staff, dept, pos) ==
    IF codes = << >> THEN st
    ELSE C12_SingleIssues(C12_SingleIssue(st, Head(codes), staff, dept, pos),
                          Tail(codes), staff, dept, pos)

\* The single returns of the codes, one after the other.
RECURSIVE C12_SingleReturns(_, _)
C12_SingleReturns(st, codes) ==
    IF codes = << >> THEN st
    ELSE C12_SingleReturns(C12_SingleReturn(st, Head(codes)), Tail(codes))

C13_BatchStep ==
    \/ \E codes \in BatchCodes, staff \in BatchStaff, e \in DeptEntries :
          batch_issue_process(codes, staff, e[1], e[2], MaxHist)
    \/ \E codes \in BatchCodes : batch_return_process(codes)

\* The number of items the step processed: the Issued records it added
\* or took.
C13_Processed ==
    IF Len(issued_df') >= Len(issued_df)
    THEN Len(issued_df') - Len(issued_df)
    ELSE Len(issued_df) - Len(issued_df')

\* The step wrote the Inventory and the Issued sheet once each, as its
\* frames are at the end of the step, and then one History event of the
\* batch carrying the count of processed items.
C13_PersistedOnceAndLogged ==
    /\ writes' = <<INVENTORY_SHEET, ISSUED_SHEET, HISTORY_SHEET>>
    /\ workbook'[INVENTORY_SHEET] = inventory_df'
    /\ load_sheet(workbook', ISSUED_SHEET) = issued_df'
    /\ IsExtension(History', History)
    /\ History'[Len(History')]["Action"] \in {"ISSUE_BATCH", "RETURN_BATCH"}
    /\ History'[Len(History')]["Details"][1] = ToString(C13_Processed)

\* C13 as stated: every batch issue and batch return invocation persists
\* the Inventory and Issued sheets once after the whole list and appends
\* exactly one ISSUE_BATCH or RETURN_BATCH event carrying the count.
C13_EveryBatchPersistsAndLogs ==
    [][C13_BatchStep => C13_PersistedOnceAndLogged]_vars

\* C13 amended: a batch issue or batch return invocation that processes
\* at least one item persists the Inventory and Issued sheets once, after
\* the whole list and never between items, and appends exactly one
\* ISSUE_BATCH or RETURN_BATCH event carrying the count of processed
\* items; an invocation that processes none persists nothing and appends
\* no event.
C13_BatchPersistsOnceIfAny ==
    [][C13_BatchStep =>
          IF C13_Processed > 0
          THEN C13_PersistedOnceAndLogged
          ELSE writes' = << >> /\ UNCHANGED workbook]_vars

\* A batch return has just taken one record of two codes and written the
\* sheets once.
C13_BatchReturnedOne ==
    /\ msg = "Returned 1 items."
    /\ writes = <<INVENTORY_SHEET, ISSUED_SHEET, HISTORY_SHEET>>
    /\ LastEvent["Action"] = "RETURN_BATCH"
    /\ LastEvent["Details"] = <<"1", "items">>

\* A frame as load_sheet reads it back once saved.
LoadedFrame(df) == [i \in 1..Len(df) |-> LoadRow(df[i])]

\* The Add merge rule on one row: the quantities add up and a field of
\* the external row that is not empty replaces the field of the row.
C14_AddMerge(old, row) ==
    [c \in INVENTORY_COLUMNS |->
        IF c = "Quantity" THEN old[c] + row[c]
        ELSE IF NotEmptyString(c, row[c]) THEN row[c]
        ELSE old[c]]

\* The Add merge rule applied to the external rows in order, each looked
\* up by the identity rule in the inventory as the rows before left it.
RECURSIVE C14_AddRuleInOrder(_, _)
C14_AddRuleInOrder(inv, rows) ==
    IF rows = << >> THEN inv
    ELSE LET row == Head(rows)
             ix == IdentityRule(inv, row["Serial Number"], row["Barcode"])
         IN  IF ix = None
             THEN C14_AddRuleInOrder(Append(inv, row), Tail(rows))
             ELSE C14_AddRuleInOrder(
                      [inv EXCEPT ![ix] = C14_AddMerge(inv[ix], row)],
                      Tail(rows))

\* C14: import applies the Add merge rule to each external row in order:
\* a row whose identity matches an inventory row, a row appended earlier
\* in the same import included, adds its quantity to that row and
\* overwrites only with its non-empty fields, and only rows matching
\* nothing are appended; two rows with the same new serial and quantities
\* q1 and q2 leave one row with quantity q1 + q2.
C14_ImportMergesLikeAdd ==
    [][\A rows \in CsvFiles :
          (import_csv(rows, MaxImportOps) /\ writes' /= << >>)
              => load_sheet(workbook', INVENTORY_SHEET)
                    = LoadedFrame(C14_AddRuleInOrder(
                          load_sheet(workbook, INVENTORY_SHEET), rows))]_vars

\* The step is a Save of the edit form filled as form.
C15_EditSave(form) == page = "edit_item_form" /\ save_item(form, MaxEditOps)

\* Every row but the one edited is as it was, in memory and persisted.
C15_OtherRowsKept ==
    /\ Len(inventory_df') = Len(inventory_df)
    /\ \A i \in 1..Len(inventory_df) :
          i /= df_index => inventory_df'[i] = inventory_df[i]
    /\ workbook'[INVENTORY_SHEET] = inventory_df'

\* The cell of column c holds what the form supplies as v: the text
\* typed, the number typed, and nothing when nothing was typed.
C15_HoldsSupplied(c, cell, v) ==
    IF c \in NumericColumns
    THEN v /= "" /\ cell = TextToNumber(v)
    ELSE cell = v

C15_Stored(c, v) ==
    IF c \in NumericColumns THEN (IF v = "" THEN 0 ELSE TextToNumber(v))
    ELSE IF c = "Available" /\ v = "" THEN "Yes"
    ELSE v

C16_OnlyCategoryOf(old, new) ==
    LET before == load_sheet(workbook, INVENTORY_SHEET)
        after == load_sheet(workbook', INVENTORY_SHEET)
    IN  /\ Len(after) = Len(before)
        /\ \A i \in 1..Len(before) :
              /\ \A c \in INVENTORY_COLUMNS \ {"Category"} :
                    after[i][c] = before[i][c]
              /\ after[i]["Category"] =
                    IF before[i]["Category"] = old THEN new
                    ELSE before[i]["Category"]

Users == auth_workbook[USERS_SHEET]

\* Some row of the Users sheet has the username u exactly, is active and
\* holds the hash of p.
C17_HasActiveRow(u, p) ==
    \E i \in 1..Len(Users) :
        /\ Users[i]["Username"] = u
        /\ Users[i]["Active"] = TRUE
        /\ Users[i]["PasswordHash"] = hash_pw(p)

\* C17: login with username u and password p succeeds if and only if a
\* Users row with Username exactly u has Active true and PasswordHash
\* equal to the hash of p, so a deactivated account fails for every
\* password; a failed login changes no sheet and leaves no current user.
C17_LoginIffActiveRow ==
    [][\A u \in Usernames, p \in Passwords :
          login(u, p, MaxUserOps)
              => IF C17_HasActiveRow(u, p)
                 THEN /\ current_user' = u
                      /\ page' = "dashboard"
                 ELSE /\ UNCHANGED <<workbook, auth_workbook, inventory_df,
                                     issued_df>>
                      /\ current_user' = NoUser
                      /\ page' = "login"
                      /\ msg' = "Invalid username or password."]_vars

\* After a session of carol, whose account was then deactivated, a login
\* has just failed.
C17_DeactivatedRefused ==
    /\ page = "login"
    /\ msg = "Invalid username or password."
    /\ current_user = NoUser
    /\ Len(History) >= 2
    /\ History[1]["Action"] = "LOGIN"
    /\ \E i \in 1..Len(Users) :
          /\ Users[i]["Username"] = "carol"
          /\ Users[i]["Active"] = FALSE
          /\ Users[i]["PasswordHash"] = hash_pw("pw1")

\* C20: after store initialization, after every user save and after
\* every logout, whatever the Users sheet held before, the sheet has a
\* row whose Username is exactly "admin" with Role "Admin" and Active
\* true, and a login as "admin" with the password of that row succeeds.
\* The Users sheet is written by these three operations only, so this is
\* an invariant of the accounts specification.
C20_BuiltInAdminCanLogIn ==
    \E i \in 1..Len(Users) :
        /\ Users[i]["Username"] = "admin"
        /\ Users[i]["Role"] = "Admin"
        /\ Users[i]["Active"] = TRUE
        /\ Users[i]["PasswordHash"] /= ""
        /\ \A p \in Passwords :
              Users[i]["PasswordHash"] = hash_pw(p)
                  => LoginAccepted(load_sheet(auth_workbook, USERS_SHEET),
                                   "admin", p)

\* Whether the step changes one of the Inventory, Issued, Staff, Users and
\* Settings sheets.
C18_SheetsChange ==
    \/ \E s \in {INVENTORY_SHEET, ISSUED_SHEET, STAFF_SHEET} :
          workbook'[s] /= workbook[s]
    \/ \E s \in {USERS_SHEET, SETTINGS_SHEET} :
          auth_workbook'[s] /= auth_workbook[s]

\* The roles the spec gives everything but the Admin-only operations.
C18_Clerks == {"Admin", "Clerk"}

\* The permission matrix of a session, read off the controls the pages
\* render: a control is enabled exactly for the roles of its operation,
\* where editors are the roles permitted to edit, and no step a Viewer
\* can take changes one of the five sheets.
C18_Matrix(editors) ==
    /\ page = "inventory" =>
          /\ ENABLED (is_clerk /\ add_item_form) <=> current_role \in C18_Clerks
          /\ ENABLED (is_clerk /\ issue_item_form)
                <=> current_role \in C18_Clerks
          /\ ENABLED (is_clerk /\ batch_issue) <=> current_role \in C18_Clerks
          /\ Len(inventory_df) >= 1 =>
                (ENABLED (is_admin /\ \E idx \in 1..MaxRows :
                                         edit_item_form(idx))
                    <=> current_role \in editors)
          /\ Len(inventory_df) >= 1 /\ Len(History) < MaxHist =>
                (ENABLED (is_admin /\ \E idx \in 1..MaxRows : delete_item(idx))
                    <=> current_role = "Admin")
    /\ page = "issued" =>
          /\ ENABLED (is_clerk /\ return_item) <=> current_role \in C18_Clerks
          /\ ENABLED (is_clerk /\ batch_return) <=> current_role \in C18_Clerks
    /\ page /= "login" =>
          /\ current_role \notin C18_Clerks =>
                ~ ENABLED (is_clerk /\ \E rows \in RoleFiles :
                                          import_csv(rows, MaxHist))
          /\ /\ current_role \in C18_Clerks
             /\ Len(History) < MaxHist
             /\ Len(workbook[INVENTORY_SHEET]) = 0
             /\ Len(inventory_df) = 0
             => ENABLED (is_clerk /\ \E rows \in RoleFiles :
                                        import_csv(rows, MaxHist))
          /\ ENABLED (is_clerk /\ manage_staff) <=> current_role \in C18_Clerks
          /\ ENABLED (is_admin /\ export_csv) <=> current_role = "Admin"
          /\ ENABLED (is_admin /\ manage_categories)
                <=> current_role = "Admin"
          /\ ENABLED open_settings <=> current_role = "Admin"
    /\ current_role = "Viewer" => ~ ENABLED (NextRoles /\ C18_SheetsChange)

\* C18 as stated: Admin, every operation; Clerk, add, edit, issue, batch
\* issue, return, batch return, import and staff management, but not
\* delete, category management, export, settings or user management;
\* Viewer, no operation that changes the Inventory, Issued, Staff, Users or
\* Settings sheets.
C18_ClerkMayEdit == C18_Matrix({"Admin", "Clerk"})

\* C18, amended: the operations permitted per role are as stated, except
\* that editing an item is permitted to the Admin only: a Clerk may add,
\* issue, batch issue, return, batch return, import and manage the staff,
\* but not edit, delete, manage the categories, export, or open the
\* settings and the users.
C18_RoleMatrix == C18_Matrix({"Admin"})

\* C18 witness: the Clerk, logged in, stands on the inventory page with an
\* item she added, and the Edit Item and Delete buttons are disabled.
C18_ClerkOnInventory ==
    /\ current_user = "carol"
    /\ current_role = "Clerk"
    /\ page = "inventory"
    /\ Len(inventory_df) = 1
    /\ Len(History) = 2
    /\ History[2]["Action"] = "ADD"
    /\ History[2]["User"] = "carol"
    /\ ~ ENABLED (is_admin /\ \E idx \in 1..MaxRows : edit_item_form(idx))

\* A handler that refuses: the permission dialog of do_issue is shown and
\* neither the workbooks nor the frames nor the session change.
C19_Refused ==
    /\ msg' = "Insufficient permissions."
    /\ UNCHANGED <<workbook, auth_workbook, inventory_df, issued_df,
                   current_user, current_role>>

\* C19: every role-gated operation handler (delete, edit, add, issue,
\* batch issue, return, batch return, import, export, category
\* rename/remove, staff add, settings, user save) checks the current role
\* when it is invoked, and when the role lacks the operation it reports a
\* permission error and changes no state, whether or not the control that
\* triggers it was rendered enabled.
C19_HandlersCheckRole ==
    [][ /\ ~is_admin =>
              /\ \A idx \in 1..MaxRows : delete_item(idx) => C19_Refused
              /\ export_csv => C19_Refused
              /\ category_rename("C1", "C2", MaxHist) => C19_Refused
              /\ category_remove("C1", MaxHist) => C19_Refused
              /\ save_user("carol", "Viewer", FALSE, "", MaxUsers)
                    => C19_Refused
              /\ save_general("1", FALSE) => C19_Refused
        /\ ~is_clerk =>
              /\ \A form \in RoleForms :
                    save_item(form, MaxHist) => C19_Refused
              /\ do_issue("SN1", "alice") /\ msg' /= "Not found"
                    => C19_Refused
              /\ batch_issue_process(<<"BC1">>, "alice", "", "", MaxHist)
                    => C19_Refused
              /\ do_return("SN1") => C19_Refused
              /\ batch_return_process(<<"BC1">>) => C19_Refused
              /\ \A rows \in RoleFiles :
                    import_csv(rows, MaxHist) => C19_Refused
              /\ add_staff("erin", "IT", "Intern", MaxStaff) => C19_Refused
      ]_vars

\* What a run of ensure_admin_user on the frame before may leave in the
\* sheet after: the hash of a row named "admin" changes only from empty
\* to the hash of the default password, and the row of every other user
\* is as it was.
C21_HealFrame(before, after) ==
    /\ Len(after) >= Len(before)
    /\ \A i \in 1..Len(before) :
          IF before[i]["Username"] = "admin"
          THEN after[i]["PasswordHash"] /= before[i]["PasswordHash"]
                   => /\ before[i]["PasswordHash"] = ""
                      /\ after[i]["PasswordHash"]
                             = hash_pw(DefaultAdminPassword)
          ELSE after[i] = before[i]

\* C21: the admin self-heal sets the admin row's PasswordHash to the hash
\* of the default password only when the stored hash is empty; a
\* non-empty admin PasswordHash and every row of every other user are
\* left unchanged by it.  The self-heal runs at the end of every user
\* save, on the sheet the save wrote, and in every logout.
C21_SelfHealFrame ==
    [][ /\ \A un \in Usernames, ro \in ROLES, ac \in BOOLEAN,
              pw \in {"", "pw1"} :
              save_user(un, ro, ac, pw, MaxUsers)
                  => C21_HealFrame(
                         SavedUsers(load_sheet(auth_workbook, USERS_SHEET),
                                    un, ro, ac, pw),
                         Users')
        /\ logout(MaxUserOps)
              => C21_HealFrame(load_sheet(auth_workbook, USERS_SHEET), Users')
      ]_vars

\* C22: the History sheet is append-only: the History before any step of
\* the application is a prefix of the History after it, so the History at
\* any earlier point is a prefix of the History at every later point, and
\* no event is ever modified, reordered or removed.
C22_HistoryAppendOnly ==
    [][ /\ Len(History') >= Len(History)
        /\ \A i \in 1..Len(History) : History'[i] = History[i] ]_vars

\* C22 witness: four operations of two kinds of session have been logged,
\* and the ledger holds them in the order they ran.
C22_LedgerOfFour ==
    /\ Len(History) = 4
    /\ History[1]["Action"] = "LOGIN"
    /\ History[2]["Action"] = "ADD"
    /\ History[3]["Action"] = "ISSUE"
    /\ History[4]["Action"] = "RETURN"
    /\ \A i \in 1..4 : History[i]["User"] = "carol"

\* C23: every operation that changes a persisted Inventory, Issued, Staff,
\* Users or Settings sheet appends at least one History event describing
\* it; there is no successful mutating operation after which History is
\* unchanged.
C23_EveryMutationLogged ==
    [][ C18_SheetsChange => Len(History') > Len(History) ]_vars

\* The sheets an event of the given action describes a change of.
C24_Describes(action) ==
    IF action \in {"ISSUE", "RETURN"}
    THEN {INVENTORY_SHEET, ISSUED_SHEET}
    ELSE {INVENTORY_SHEET}

\* C24: when saving a sheet can fail, no History event is ever persisted
\* for a mutation that was not persisted: a step of add, merge-add, edit,
\* delete, issue or return that leaves its event in the persisted History
\* has also saved every sheet the event describes a change of.
C24_NoEventWithoutMutation ==
    [][ Len(History') > Len(History)
            => \A sheet \in C24_Describes(History'[Len(History')]["Action"]) :
                  \E j \in 1..Len(writes') : writes'[j] = sheet ]_vars

\* The backup files among the side files.
Backups(side) == {g \in side : g.kind = "backup"}

\* The rows of the Settings sheet that give the key.
SettingHits(rows, key) == {i \in 1..Len(rows) : rows[i]["Key"] = key}

\* The text the Settings sheet holds for the key in its last such row.
PersistedSetting(rows, key) ==
    rows[CHOOSE i \in SettingHits(rows, key) :
            \A j \in SettingHits(rows, key) : j <= i]["Value"]

\* C25: a save creates no backup file when the persisted backup_enabled
\* setting is anything other than "1"; it is treated as enabled, and the
\* target file copied to its backup name, when the setting key is absent
\* or the settings cannot be read.
C25_BackupSwitch ==
    [][\A sheet \in {INVENTORY_SHEET, HISTORY_SHEET}, ts \in Clock,
          readable \in BOOLEAN :
          \A df \in StoreFrames(sheet) :
             save_sheet_call(sheet, df, ts, readable) =>
                LET e == ensure_workbooks_exist(workbook, auth_workbook,
                                                side_files, ts)
                    rows == e.auth[SETTINGS_SHEET]
                    absent == SettingHits(rows, "backup_enabled") = {}
                IN  IF ~readable \/ absent
                    THEN SideFile(DATA_FILE, "backup", ts, e.data)
                             \in side_files'
                    ELSE PersistedSetting(rows, "backup_enabled") /= "1"
                             => Backups(side_files') = Backups(side_files)
      ]_vars

\* C25 witness: with the directory entries filled in and the backup box
\* unticked, the Inventory sheet has been saved with a row and no file
\* stands beside the workbooks.
C25_SavedWithoutBackup ==
    /\ writes = <<INVENTORY_SHEET>>
    /\ Len(workbook[INVENTORY_SHEET]) = 1
    /\ auth_workbook[SETTINGS_SHEET] = DirectorySettings("0")
    /\ side_files = {}

\* C26: with backup_enabled = "1" persisted, every save call produces
\* exactly one new backup file holding the target file's content from
\* before that save, so that n saves leave n distinct backup files, the
\* saves that happen within the same clock second included.
C26_OneBackupPerSave ==
    [][\A sheet \in {INVENTORY_SHEET, HISTORY_SHEET}, ts \in Clock :
          \A df \in StoreFrames(sheet) :
             save_sheet_call(sheet, df, ts, TRUE) =>
                LET e == ensure_workbooks_exist(workbook, auth_workbook,
                                                side_files, ts)
                    rows == e.auth[SETTINGS_SHEET]
                IN  /\ SettingHits(rows, "backup_enabled") /= {}
                    /\ PersistedSetting(rows, "backup_enabled") = "1"
                    => /\ Cardinality(Backups(side_files'))
                             = Cardinality(Backups(side_files)) + 1
                       /\ SideFile(DATA_FILE, "backup", ts, e.data)
                             \in side_files'
      ]_vars

\* C27: saving one sheet replaces only that sheet: with both backing files
\* intact, the sheet saved holds the frame, every other sheet of the same
\* backing file has the contents it had before the save, and so has every
\* sheet of the other backing file.
C27_SaveReplacesOneSheet ==
    [][\A sheet \in {INVENTORY_SHEET, HISTORY_SHEET}, ts \in Clock,
          readable \in BOOLEAN :
          \A df \in StoreFrames(sheet) :
             /\ save_sheet_call(sheet, df, ts, readable)
             /\ ~IsCorrupt(workbook)
             /\ ~IsCorrupt(auth_workbook)
             => /\ workbook'[sheet] = df
                /\ DOMAIN workbook' = DOMAIN workbook
                /\ \A other \in DOMAIN workbook \ {sheet} :
                      workbook'[other] = workbook[other]
                /\ auth_workbook' = auth_workbook
      ]_vars

\* C27 witness: the Inventory sheet has just been saved with a row into a
\* file whose History and Staff sheets hold rows, and they still do.
C27_SavedBesideOtherSheets ==
    /\ writes = <<INVENTORY_SHEET>>
    /\ Len(workbook[INVENTORY_SHEET]) = 1
    /\ Len(workbook[HISTORY_SHEET]) = 1
    /\ workbook[STAFF_SHEET] = StaffSheet
    /\ Len(StaffSheet) > 0

\* What a load at second ts makes of the backing file that held before and
\* holds after: a file that could not be opened stands under its
\* quarantine name and a new file is in its place; a file that could be
\* opened is as it was.
C28_Recovered(file, before, after, ts) ==
    IF IsCorrupt(before)
    THEN /\ after = create_workbook(file)
         /\ SideFile(file, "corrupt", ts, before) \in side_files'
         /\ \A s \in DOMAIN after :
               after[s] = IF s = USERS_SHEET THEN <<SeedAdmin>>
                          ELSE IF s = SETTINGS_SHEET THEN SeedSettings
                          ELSE << >>
    ELSE after = before

C29_IssueSerialized(code) ==
    LET inv == load_sheet(workbook, INVENTORY_SHEET)
        ix == find_item_index(inv, code, code)
    IN  /\ ix /= None
        /\ IsAvailable(inv[ix])
        /\ Len(workbook'[ISSUED_SHEET]) = Len(workbook[ISSUED_SHEET]) + 1
        /\ \A i \in 1..Len(workbook[ISSUED_SHEET]) :
              workbook'[ISSUED_SHEET][i] = workbook[ISSUED_SHEET][i]

\* The serial number and the quantity of each row.
C29_Stock(rows) ==
    [i \in 1..Len(rows) |->
        <<rows[i]["Serial Number"], rows[i]["Quantity"]>>]

\* An add that went through left in the Inventory sheet the stock the
\* sheet held at that moment with the form added to it: merged into the
\* row of its serial number, or appended.
C29_AddSerialized(form) ==
    C29_Stock(load_sheet(workbook', INVENTORY_SHEET))
        = C29_Stock(AddedInventory(load_sheet(workbook, INVENTORY_SHEET),
                                   ParseForm(form)))

\* C29: with two sessions on the same backing files, each
\* read-decide-write operation is serialized: an issue succeeds only on
\* an item the file holds as available and keeps the Issued records of
\* the other session, so that two sessions never both issue the same
\* available item, and an add saves the file's rows with the form merged
\* in, so that a merge-add of one session is never lost by a save of the
\* other.
C29_SessionsSerialized ==
    [][/\ \A staff \in {"alice", "bob"} :
             do_issue("SN1", staff) /\ writes' = IssueWrites
                => C29_IssueSerialized("SN1")
       /\ \A form \in TwoForms :
             save_item(form, MaxHist) /\ writes' /= << >>
                => C29_AddSerialized(form)
      ]_vars

\* The rows of the Staff sheet whose Username is u.
C30_RowsOf(staff, u) == {i \in 1..Len(staff) : staff[i].Username = u}

\* C30: staff usernames are unique: after any staff add/save action the
\* Staff sheet has at most one row per Username, and saving a username
\* that already exists updates that row instead of adding another.
C30_StaffUsernamesUnique ==
    [][\A e \in StaffEntries :
          add_staff(e[1], e[2], e[3], MaxStaffRows) /\ writes' /= << >>
             => LET before == workbook[STAFF_SHEET]
                    after == workbook'[STAFF_SHEET]
                IN  /\ \A i \in 1..Len(after) :
                          C30_RowsOf(after, after[i].Username) = {i}
                    /\ C30_RowsOf(before, e[1]) /= {}
                          => /\ Len(after) = Len(before)
                             /\ \A i \in C30_RowsOf(before, e[1]) :
                                   /\ after[i].Department = e[2]
                                   /\ after[i].Position = e[3]
      ]_vars

\* The texts of RawAvailable whose trimmed, lower-cased form is one of
\* true, 1, yes, y, t.
C31_TruthyTexts == {"Yes", " yes ", "TRUE", "1", "Y"}

\* The Available column of a frame.
C31_Available(df) == [i \in 1..Len(df) |-> df[i]["Available"]]

C32_BlankTextLoadsEmpty ==
    [][show_inventory =>
          LET saved == workbook[INVENTORY_SHEET]
              df == inventory_df'
          IN  /\ \A i \in 1..Len(saved) :
                    \A c \in TextColumns \cap DOMAIN saved[i] :
                       saved[i][c] = "" => df[i][c] = ""
              /\ \A code \in ScanCodes \ {""} :
                    LET ix == find_item_index(df, code, code)
                    IN  ix /= None
                           => \/ saved[ix]["Serial Number"] = code
                              \/ saved[ix]["Barcode"] = code
      ]_vars

\* The step issues items: single or batch issue, gone through.
C33_Issues ==
    \/ \E code \in SerialCodes : do_issue(code, "alice")
    \/ \E codes \in SerialBatches :
          batch_issue_process(codes, "alice", "IT", "Engineer", MaxHist)

\* C33: once an item has been issued, it cannot be issued again until it
\* has been returned: a successful issue finds no Issued record of the
\* row it issues, a return being the only operation that removes one.
C33_NoReissueBeforeReturn ==
    [][C33_Issues /\ Len(issued_df') > Len(issued_df) =>
          \A k \in (Len(issued_df) + 1)..Len(issued_df') :
             \A j \in 1..(k - 1) :
                issued_df'[j]["Serial Number"]
                   /= issued_df'[k]["Serial Number"]
      ]_vars

\* The frame df holds what the sheet rows hold, cell for cell as
\* load_sheet reads them.
C34_SameRows(df, rows) ==
    /\ Len(df) = Len(rows)
    /\ \A i \in 1..Len(rows) : LoadRow(df[i]) = LoadRow(rows[i])

\* C34: at the start of every operation that saves the Inventory sheet
\* (add, edit, delete, issue, batch issue, return, batch return, import:
\* the saves made from another page than the Categories page), the
\* in-memory inventory equals the persisted Inventory sheet, so that a
\* persisted category rename or remove is not undone by an issue or a
\* return.
C34_InventoryFreshAtSave ==
    [][/\ page /= "categories"
       /\ \E k \in 1..Len(writes') : writes'[k] = INVENTORY_SHEET
       => /\ C34_SameRows(inventory_df, workbook[INVENTORY_SHEET])
          /\ page \in {"issue_item_form", "return_item"}
                => \A i \in 1..Len(workbook[INVENTORY_SHEET]) :
                      LoadRow(workbook'[INVENTORY_SHEET][i])["Category"]
                         = LoadRow(workbook[INVENTORY_SHEET][i])["Category"]
      ]_vars

\* No two rows of df share a value of column col other than the empty
\* text.
C35_Unique(df, col) ==
    \A i, j \in 1..Len(df) :
       df[i][col] /= "" /\ df[i][col] = df[j][col] => i = j

\* C35: starting from an inventory with no two rows sharing a non-empty
\* Serial Number, every sequence of add, merge-add, delete, issue, batch
\* issue, return and batch return operations keeps non-empty Serial
\* Numbers unique across the rows of the Inventory sheet and of the
\* inventory in memory.
C35_SerialNumbersUnique ==
    /\ C35_Unique(workbook[INVENTORY_SHEET], "Serial Number")
    /\ C35_Unique(inventory_df, "Serial Number")

\* C36: starting from an inventory with no two rows sharing a non-empty
\* Barcode, every sequence of add and merge-add operations keeps
\* non-empty Barcodes unique across inventory rows, also after an add
\* whose serial number matches one row and whose barcode is that of
\* another row.
C36_BarcodesUnique ==
    [][(\E form \in CodeForms : save_item(form, MaxHist))
          /\ C35_Unique(workbook[INVENTORY_SHEET], "Barcode")
          => C35_Unique(workbook'[INVENTORY_SHEET], "Barcode")
      ]_vars

\* The last operation logged was the issue of the row that code finds in
\* the Inventory sheet.
C37_JustIssued(code) ==
    LET inv == load_sheet(workbook, INVENTORY_SHEET)
        ix == find_item_index(inv, code, code)
    IN  /\ History /= << >>
        /\ LastEvent["Action"] = "ISSUE"
        /\ ix /= None
        /\ LastEvent["Details"][1] = SerialOrBarcode(inv[ix])

\* C37: for an available item whose inventory row exists, a successful
\* issue followed by a return of the same code restores the Inventory and
\* Issued sheets to their contents before the issue: the return takes
\* back the record the issue appended and the flag the issue cleared,
\* and nothing else changes but History, which grows by the RETURN event.
C37_IssueReturnRoundTrip ==
    [][\A code \in RoundCodes :
          C37_JustIssued(code) /\ do_return(code) =>
             LET inv == load_sheet(workbook, INVENTORY_SHEET)
                 iss == load_sheet(workbook, ISSUED_SHEET)
                 ix == find_item_index(inv, code, code)
             IN  /\ load_sheet(workbook', INVENTORY_SHEET)
                       = [inv EXCEPT ![ix]["Available"] = "Yes"]
                 /\ load_sheet(workbook', ISSUED_SHEET)
                       = SubSeq(iss, 1, Len(iss) - 1)
                 /\ Len(History') = Len(History) + 1
                 /\ History'[Len(History')]["Action"] = "RETURN"
      ]_vars

\* The Issued records of iss that carry code as serial number or barcode.
C38_RecordsOf(iss, code) ==
    {i \in 1..Len(iss) :
        iss[i]["Serial Number"] = code \/ iss[i]["Barcode"] = code}

\* C38: a return (single or as a batch entry) with an empty code never
\* matches an Issued record: it removes no Issued record and changes no
\* inventory row, even when some Issued record has an empty Serial
\* Number or an empty Barcode.  A batch with an empty line and the line
\* BC1 takes back what the line BC1 alone takes back.
C38_EmptyCodeMatchesNothing ==
    [][/\ do_return("") =>
             /\ msg' = "Not found"
             /\ UNCHANGED <<workbook, inventory_df, issued_df>>
       /\ batch_return_process(<<"">>) =>
             /\ UNCHANGED <<workbook, inventory_df>>
             /\ issued_df' = load_sheet(workbook, ISSUED_SHEET)
       /\ batch_return_process(<<"", "BC1">>) =>
             LET out == BatchReturned(inventory_df, issued_df, <<"BC1">>, 0)
             IN  /\ inventory_df' = out.inventory_df
                 /\ out.count = 0 => UNCHANGED workbook
                 /\ out.count > 0 =>
                       /\ workbook'[ISSUED_SHEET] = out.issued_df
                       /\ workbook'[INVENTORY_SHEET] = out.inventory_df
      ]_vars

\* C38 witness: a return with an empty code has been refused while the
\* Issued sheet holds a record whose Serial Number cell is blank.
C38_EmptyCodeRefused ==
    /\ page = "return_item"
    /\ msg = "Not found"
    /\ C38_RecordsOf(workbook[ISSUED_SHEET], "") /= {}
    /\ Len(issued_df) = Len(workbook[ISSUED_SHEET])

\* The Available flags of the Inventory sheet of wb, as read.
C39_Flags(wb) ==
    LET inv == load_sheet(wb, INVENTORY_SHEET)
    IN  [i \in 1..Len(inv) |-> inv[i]["Available"]]

\* C39: issue and return are atomic across the Inventory and Issued
\* sheets in the persisted store: when a save of an issue or a return
\* raises, the store holds the change of the Available flag exactly when
\* it holds the change of the Issued records.
C39_IssueReturnAtomic ==
    [][(\/ \E k \in 1..3 : do_issue_raising("SN1", "alice", k)
        \/ \E k \in 1..3 : do_return_raising("SN1", k))
       => (C39_Flags(workbook') /= C39_Flags(workbook)
              <=> workbook'[ISSUED_SHEET] /= workbook[ISSUED_SHEET])]_vars

====
